---- MODULE Spec2Model ----
(***************************************************************************)
(* The IPL analysis pipeline: load_data and clean_data (data_loader.py),   *)
(* calculate_kpis and save_precomputed_stats (data_processor.py).          *)
(*                                                                         *)
(* A Python str is a sequence of one-character strings, so that strip,     *)
(* lower, title, split and int are computed character by character.  A     *)
(* missing cell of an object column (NaN / pd.NA) is the value NaN.        *)
(***************************************************************************)
EXTENDS Integers, Sequences, FiniteSets, TLC

VARIABLES
  pc,          \* position of the run in the pipeline
  files,       \* set of the input files present under data/
  csv,         \* content of the two input files: [matches, deliveries]
  matches,     \* the matches DataFrame held by the caller
  deliveries,  \* the deliveries DataFrame held by the caller
  log,         \* warnings printed so far
  kpis,        \* the mapping returned by calculate_kpis
  stats,       \* files present in ../data/precomputed_stats
  arg,         \* argument of the function under test (function specifications)
  ret          \* its result

vars == <<pc, files, csv, matches, deliveries, log, kpis, stats, arg, ret>>

(***************************************************************************)
(* Characters and Python's str methods                                     *)
(***************************************************************************)

\* a missing cell of an object column; isinstance(NaN, str) is false
NaN == <<"NaN">>

UpperChars ==
  <<"A","B","C","D","E","F","G","H","I","J","K","L","M",
    "N","O","P","Q","R","S","T","U","V","W","X","Y","Z">>

LowerChars ==
  <<"a","b","c","d","e","f","g","h","i","j","k","l","m",
    "n","o","p","q","r","s","t","u","v","w","x","y","z">>

DigitChars == <<"0","1","2","3","4","5","6","7","8","9">>

\* the characters of the model in code point order
Chars == <<" ", "-", "/">> \o DigitChars \o UpperChars \o LowerChars

Range(s) == {s[i] : i \in DOMAIN s}

IndexOf(s, c) == CHOOSE i \in DOMAIN s : s[i] = c

\* ord(c), up to an order-preserving renumbering
Ord(c) == IndexOf(Chars, c)

IsUpper(c) == c \in Range(UpperChars)

IsLower(c) == c \in Range(LowerChars)

IsCased(c) == IsUpper(c) \/ IsLower(c)

IsDigit(c) == c \in Range(DigitChars)

IsSpace(c) == c = " "

LowerChar(c) == IF IsUpper(c) THEN LowerChars[IndexOf(UpperChars, c)] ELSE c

UpperChar(c) == IF IsLower(c) THEN UpperChars[IndexOf(LowerChars, c)] ELSE c

\* str.lower()
str_lower(s) == [i \in DOMAIN s |-> LowerChar(s[i])]

\* str.upper()
str_upper(s) == [i \in DOMAIN s |-> UpperChar(s[i])]

\* str.title(): a cased character is upper-cased when it follows an uncased
\* character or starts the string, and lower-cased otherwise
str_title(s) ==
  [i \in DOMAIN s |->
     IF i = 1 \/ ~IsCased(s[i - 1]) THEN UpperChar(s[i]) ELSE LowerChar(s[i])]

\* str.strip(): drop leading and trailing whitespace
str_strip(s) ==
  LET keep == {i \in DOMAIN s : ~IsSpace(s[i])}
  IN  IF keep = {} THEN <<>>
      ELSE LET lo == CHOOSE i \in keep : \A j \in keep : i <= j
               hi == CHOOSE i \in keep : \A j \in keep : j <= i
           IN  SubSeq(s, lo, hi)

\* c in s
str_contains(s, c) == c \in Range(s)

\* s.split(c)[-1]: what follows the last occurrence of c (all of s without c)
str_split_last(s, c) ==
  LET at == {i \in DOMAIN s : s[i] = c}
  IN  IF at = {} THEN s
      ELSE LET last == CHOOSE i \in at : \A j \in at : j <= i
           IN  SubSeq(s, last + 1, Len(s))

\* int(s) raises ValueError unless s, stripped, is a non-empty run of digits
int_raises(s) ==
  LET t == str_strip(s) IN t = <<>> \/ \E i \in DOMAIN t : ~IsDigit(t[i])

RECURSIVE DigitsValue(_)
DigitsValue(t) ==
  IF t = <<>> THEN 0
  ELSE 10 * DigitsValue(SubSeq(t, 1, Len(t) - 1)) + (IndexOf(DigitChars, t[Len(t)]) - 1)

\* int(s)
int_of(s) == DigitsValue(str_strip(s))

\* str(n) for n >= 0
RECURSIVE str_of(_)
str_of(n) ==
  IF n < 10 THEN <<DigitChars[n + 1]>>
  ELSE Append(str_of(n \div 10), DigitChars[(n % 10) + 1])

\* a < b for two str, as Python compares them (by code point, then by length)
RECURSIVE str_less(_, _)
str_less(a, b) ==
  IF b = <<>> THEN FALSE
  ELSE IF a = <<>> THEN TRUE
  ELSE IF a[1] # b[1] THEN Ord(a[1]) < Ord(b[1])
  ELSE str_less(Tail(a), Tail(b))

(***************************************************************************)
(* data_loader.clean_data: season labels                                   *)
(***************************************************************************)

\* the labels clean_season special-cases: ['2020/21', '2020-21']
dual_labels == { <<"2","0","2","0","/","2","1">>, <<"2","0","2","0","-","2","1">> }

\* season_year without the expansion of a two-digit year
season_year_unexpanded(season_str) ==
  str_strip(IF str_contains(season_str, "/")
            THEN str_split_last(season_str, "/")
            ELSE str_split_last(season_str, "-"))

\* the trailing part of a split label, stripped and expanded
season_year(season_str) ==
  LET year  == IF str_contains(season_str, "/")
               THEN str_split_last(season_str, "/")
               ELSE str_split_last(season_str, "-")
      year1 == str_strip(year)
  IN  IF Len(year1) = 2 THEN <<"2", "0">> \o year1 ELSE year1

\* clean_season raises ValueError where int() does
clean_season_raises(season_str) ==
  IF season_str \in dual_labels THEN FALSE
  ELSE IF str_contains(season_str, "/") \/ str_contains(season_str, "-")
       THEN int_raises(season_year(season_str))
       ELSE int_raises(season_str)

\* clean_season(season_str), where it does not raise
clean_season(season_str) ==
  IF season_str \in dual_labels THEN 2020
  ELSE IF str_contains(season_str, "/") \/ str_contains(season_str, "-")
       THEN int_of(season_year(season_str))
       ELSE int_of(season_str)

(***************************************************************************)
(* data_loader.clean_data: team names                                      *)
(***************************************************************************)

\* the alias table, as <<key, value>> pairs in source order
team_mapping ==
  <<
    << (* 'delhi daredevils': 'Delhi Capitals' *)
       <<"d","e","l","h","i"," ","d","a","r","e","d","e","v","i","l","s">>,
       <<"D","e","l","h","i"," ","C","a","p","i","t","a","l","s">> >>,
    << (* 'deccan chargers': 'Sunrisers Hyderabad' *)
       <<"d","e","c","c","a","n"," ","c","h","a","r","g","e","r","s">>,
       <<"S","u","n","r","i","s","e","r","s"," ","H","y","d","e","r","a","b","a","d">> >>,
    << (* 'kings xi punjab': 'Punjab Kings' *)
       <<"k","i","n","g","s"," ","x","i"," ","p","u","n","j","a","b">>,
       <<"P","u","n","j","a","b"," ","K","i","n","g","s">> >>,
    << (* 'royal challengers bengaluru': 'Royal Challengers Bangalore' *)
       <<"r","o","y","a","l"," ","c","h","a","l","l","e","n","g","e","r","s"," ","b","e","n","g","a","l","u","r","u">>,
       <<"R","o","y","a","l"," ","C","h","a","l","l","e","n","g","e","r","s"," ","B","a","n","g","a","l","o","r","e">> >>,
    << (* 'royal challengers bangalore': 'Royal Challengers Bangalore' *)
       <<"r","o","y","a","l"," ","c","h","a","l","l","e","n","g","e","r","s"," ","b","a","n","g","a","l","o","r","e">>,
       <<"R","o","y","a","l"," ","C","h","a","l","l","e","n","g","e","r","s"," ","B","a","n","g","a","l","o","r","e">> >>,
    << (* 'rising pune supergiant': 'Rising Pune Supergiants' *)
       <<"r","i","s","i","n","g"," ","p","u","n","e"," ","s","u","p","e","r","g","i","a","n","t">>,
       <<"R","i","s","i","n","g"," ","P","u","n","e"," ","S","u","p","e","r","g","i","a","n","t","s">> >>,
    << (* 'rising pune supergaints': 'Rising Pune Supergiants' *)
       <<"r","i","s","i","n","g"," ","p","u","n","e"," ","s","u","p","e","r","g","a","i","n","t","s">>,
       <<"R","i","s","i","n","g"," ","P","u","n","e"," ","S","u","p","e","r","g","i","a","n","t","s">> >>,
    << (* 'rising pune supergiants': 'Rising Pune Supergiants' *)
       <<"r","i","s","i","n","g"," ","p","u","n","e"," ","s","u","p","e","r","g","i","a","n","t","s">>,
       <<"R","i","s","i","n","g"," ","P","u","n","e"," ","S","u","p","e","r","g","i","a","n","t","s">> >>,
    << (* 'gujarat lions': 'Gujarat Titans' *)
       <<"g","u","j","a","r","a","t"," ","l","i","o","n","s">>,
       <<"G","u","j","a","r","a","t"," ","T","i","t","a","n","s">> >>,
    << (* 'pune warriors': 'Rising Pune Supergiants' *)
       <<"p","u","n","e"," ","w","a","r","r","i","o","r","s">>,
       <<"R","i","s","i","n","g"," ","P","u","n","e"," ","S","u","p","e","r","g","i","a","n","t","s">> >>,
    << (* 'delhi capitals ': 'Delhi Capitals' *)
       <<"d","e","l","h","i"," ","c","a","p","i","t","a","l","s"," ">>,
       <<"D","e","l","h","i"," ","C","a","p","i","t","a","l","s">> >>,
    << (* 'sunrisers hyderabad ': 'Sunrisers Hyderabad' *)
       <<"s","u","n","r","i","s","e","r","s"," ","h","y","d","e","r","a","b","a","d"," ">>,
       <<"S","u","n","r","i","s","e","r","s"," ","H","y","d","e","r","a","b","a","d">> >>,
    << (* 'punjab kings ': 'Punjab Kings' *)
       <<"p","u","n","j","a","b"," ","k","i","n","g","s"," ">>,
       <<"P","u","n","j","a","b"," ","K","i","n","g","s">> >>,
    << (* 'royal challengers bangalore ': 'Royal Challengers Bangalore' *)
       <<"r","o","y","a","l"," ","c","h","a","l","l","e","n","g","e","r","s"," ","b","a","n","g","a","l","o","r","e"," ">>,
       <<"R","o","y","a","l"," ","C","h","a","l","l","e","n","g","e","r","s"," ","B","a","n","g","a","l","o","r","e">> >>,
    << (* 'rising pune supergiants ': 'Rising Pune Supergiants' *)
       <<"r","i","s","i","n","g"," ","p","u","n","e"," ","s","u","p","e","r","g","i","a","n","t","s"," ">>,
       <<"R","i","s","i","n","g"," ","P","u","n","e"," ","S","u","p","e","r","g","i","a","n","t","s">> >>,
    << (* 'kolkata knight riders ': 'Kolkata Knight Riders' *)
       <<"k","o","l","k","a","t","a"," ","k","n","i","g","h","t"," ","r","i","d","e","r","s"," ">>,
       <<"K","o","l","k","a","t","a"," ","K","n","i","g","h","t"," ","R","i","d","e","r","s">> >>,
    << (* 'mumbai indians ': 'Mumbai Indians' *)
       <<"m","u","m","b","a","i"," ","i","n","d","i","a","n","s"," ">>,
       <<"M","u","m","b","a","i"," ","I","n","d","i","a","n","s">> >>,
    << (* 'chennai super kings ': 'Chennai Super Kings' *)
       <<"c","h","e","n","n","a","i"," ","s","u","p","e","r"," ","k","i","n","g","s"," ">>,
       <<"C","h","e","n","n","a","i"," ","S","u","p","e","r"," ","K","i","n","g","s">> >>,
    << (* 'rajasthan royals ': 'Rajasthan Royals' *)
       <<"r","a","j","a","s","t","h","a","n"," ","r","o","y","a","l","s"," ">>,
       <<"R","a","j","a","s","t","h","a","n"," ","R","o","y","a","l","s">> >>,
    << (* 'gujarat titans ': 'Gujarat Titans' *)
       <<"g","u","j","a","r","a","t"," ","t","i","t","a","n","s"," ">>,
       <<"G","u","j","a","r","a","t"," ","T","i","t","a","n","s">> >>,
    << (* 'lucknow super giants ': 'Lucknow Super Giants' *)
       <<"l","u","c","k","n","o","w"," ","s","u","p","e","r"," ","g","i","a","n","t","s"," ">>,
       <<"L","u","c","k","n","o","w"," ","S","u","p","e","r"," ","G","i","a","n","t","s">> >>,
    << (* 'delhi capitals': 'Delhi Capitals' *)
       <<"d","e","l","h","i"," ","c","a","p","i","t","a","l","s">>,
       <<"D","e","l","h","i"," ","C","a","p","i","t","a","l","s">> >>,
    << (* 'sunrisers hyderabad': 'Sunrisers Hyderabad' *)
       <<"s","u","n","r","i","s","e","r","s"," ","h","y","d","e","r","a","b","a","d">>,
       <<"S","u","n","r","i","s","e","r","s"," ","H","y","d","e","r","a","b","a","d">> >>,
    << (* 'punjab kings': 'Punjab Kings' *)
       <<"p","u","n","j","a","b"," ","k","i","n","g","s">>,
       <<"P","u","n","j","a","b"," ","K","i","n","g","s">> >>,
    << (* 'kolkata knight riders': 'Kolkata Knight Riders' *)
       <<"k","o","l","k","a","t","a"," ","k","n","i","g","h","t"," ","r","i","d","e","r","s">>,
       <<"K","o","l","k","a","t","a"," ","K","n","i","g","h","t"," ","R","i","d","e","r","s">> >>,
    << (* 'mumbai indians': 'Mumbai Indians' *)
       <<"m","u","m","b","a","i"," ","i","n","d","i","a","n","s">>,
       <<"M","u","m","b","a","i"," ","I","n","d","i","a","n","s">> >>,
    << (* 'chennai super kings': 'Chennai Super Kings' *)
       <<"c","h","e","n","n","a","i"," ","s","u","p","e","r"," ","k","i","n","g","s">>,
       <<"C","h","e","n","n","a","i"," ","S","u","p","e","r"," ","K","i","n","g","s">> >>,
    << (* 'rajasthan royals': 'Rajasthan Royals' *)
       <<"r","a","j","a","s","t","h","a","n"," ","r","o","y","a","l","s">>,
       <<"R","a","j","a","s","t","h","a","n"," ","R","o","y","a","l","s">> >>,
    << (* 'gujarat titans': 'Gujarat Titans' *)
       <<"g","u","j","a","r","a","t"," ","t","i","t","a","n","s">>,
       <<"G","u","j","a","r","a","t"," ","T","i","t","a","n","s">> >>,
    << (* 'lucknow super giants': 'Lucknow Super Giants' *)
       <<"l","u","c","k","n","o","w"," ","s","u","p","e","r"," ","g","i","a","n","t","s">>,
       <<"L","u","c","k","n","o","w"," ","S","u","p","e","r"," ","G","i","a","n","t","s">> >>
  >>

\* name in team_mapping
is_alias(name) == \E i \in DOMAIN team_mapping : team_mapping[i][1] = name

\* team_mapping[name] in a table where two aliases point at another alias
alias_of_chained(name) ==
  IF name = <<"g","u","j","a","r","a","t"," ","l","i","o","n","s">>
  THEN <<"P","u","n","e"," ","W","a","r","r","i","o","r","s">>
  ELSE IF name = <<"p","u","n","e"," ","w","a","r","r","i","o","r","s">>
  THEN <<"D","e","c","c","a","n"," ","C","h","a","r","g","e","r","s">>
  ELSE team_mapping[CHOOSE i \in DOMAIN team_mapping : team_mapping[i][1] = name][2]

\* team_mapping[name]
alias_of(name) ==
  team_mapping[CHOOSE i \in DOMAIN team_mapping : team_mapping[i][1] = name][2]

\* normalize_team_name without the strip
normalize_team_name_unstripped(name) ==
  IF name = NaN THEN name ELSE str_lower(name)

normalize_team_name(name) ==
  IF name # NaN THEN str_lower(str_strip(name)) ELSE name

\* Series.map(team_mapping).fillna(the series), on one cell
map_fillna(name) == IF name # NaN /\ is_alias(name) THEN alias_of(name) ELSE name

\* the cell left as the lookup gave it
cell_untitled(name) == name

\* Series.str.title(), on one cell
cell_title(name) == IF name # NaN THEN str_title(name) ELSE name

\* what the loop over the team columns does to one cell
canonicalize(name) ==
  cell_title(map_fillna(normalize_team_name(map_fillna(normalize_team_name(name)))))

(***************************************************************************)
(* DataFrames                                                              *)
(*                                                                         *)
(* A DataFrame is [cols, rows]: the set of its column names and the        *)
(* sequence of its rows, each a function from cols to cells.               *)
(***************************************************************************)

\* a missing cell of a numeric column (float nan); no number of the data is negative
NaNf == 0 - 1

\* the string literals of the two modules
s_Unknown == <<"U","n","k","n","o","w","n">>

s_No_Result == <<"N","o"," ","R","e","s","u","l","t">>

s_None == <<"N","o","n","e">>

s_Normal == <<"N","o","r","m","a","l">>

s_caught == <<"c","a","u","g","h","t">>

s_bowled == <<"b","o","w","l","e","d">>

s_lbw == <<"l","b","w">>

s_stumped == <<"s","t","u","m","p","e","d">>

s_caught_and_bowled == <<"c","a","u","g","h","t"," ","a","n","d"," ","b","o","w","l","e","d">>

s_hit_wicket == <<"h","i","t"," ","w","i","c","k","e","t">>

s_run_out == <<"r","u","n"," ","o","u","t">>

DataFrame(cols, rows) == [cols |-> cols, rows |-> rows]

\* the sequence s, element by element
Listed(s) == s \o <<>>

\* the row with the columns cols and the cells cell(c)
Row(cols, cell(_)) == [c \in cols |-> cell(c)] @@ <<>>

\* the rows f(rows[1]), f(rows[2]), ...
MapRows(rows, f(_)) == Listed([i \in DOMAIN rows |-> f(rows[i])])

\* series.fillna(v) on one cell of an object column
fillna(x, v) == IF x = NaN THEN v ELSE x

\* series.fillna(v) on one cell of a numeric column
fillna_num(x, v) == IF x = NaNf THEN v ELSE x

\* a replace that changes nothing
replace_na_kept(x, old) == x

\* series.replace(old, pd.NA) on one cell
replace_na(x, old) == IF x = old THEN NaN ELSE x

\* the rows of a sequence that satisfy keep, in order (boolean indexing)
Filter(rows, keep(_)) ==
  LET idx == {i \in DOMAIN rows : keep(rows[i])}
      nth(k) == CHOOSE i \in idx : Cardinality({j \in idx : j <= i}) = k
  IN  Listed([k \in 1..Cardinality(idx) |-> rows[nth(k)]])

\* the concatenation of a sequence of sequences
RECURSIVE Flatten(_)
Flatten(ss) == IF ss = <<>> THEN <<>> ELSE Head(ss) \o Flatten(Tail(ss))

\* the concatenation of the sequences f(rows[1]), f(rows[2]), ...
FlatMap(rows, f(_)) == Flatten(MapRows(rows, f))

(***************************************************************************)
(* data_loader.clean_data                                                  *)
(***************************************************************************)

matches_required == {"season", "city", "winner", "result_margin",
                     "player_of_match", "method", "team1", "toss_winner", "id"}

deliveries_required == {"dismissal_kind", "player_dismissed", "fielder",
                        "extras_type", "batting_team", "bowling_team", "match_id"}

\* the loop over the columns of the two teams only
team_columns_of_sides == {"team1", "team2", "home_team"}

team_columns == {"team1", "team2", "winner", "toss_winner", "home_team"}

\* the exception clean_data raises on (matches, deliveries), "none" if it returns
clean_data_exc(m, d) ==
  IF "season" \notin m.cols THEN "KeyError"
  ELSE IF \E i \in DOMAIN m.rows : clean_season_raises(m.rows[i]["season"])
       THEN "ValueError"
  ELSE IF ~(matches_required \subseteq m.cols) THEN "KeyError"
  ELSE IF ~(deliveries_required \subseteq d.cols) THEN "KeyError"
  ELSE "none"

\* lines 35-42 on one row: the season label, the defaults and home_team
clean_match_row(r) ==
  ("home_team" :> r["team1"]) @@
  [r EXCEPT !["season"]          = clean_season(@),
            !["city"]            = fillna(@, s_Unknown),
            !["winner"]          = fillna(@, s_No_Result),
            !["result_margin"]   = fillna_num(@, 0),
            !["player_of_match"] = fillna(@, s_None),
            !["method"]          = fillna(@, s_Normal),
            !["toss_winner"]     = fillna(@, s_None)]

\* lines 35-42
clean_matches(m) ==
  DataFrame(m.cols \cup {"home_team"}, MapRows(m.rows, clean_match_row))

\* lines 46-52 on one row: the defaults, then fielder 'None' back to missing
clean_delivery_row(r) ==
  [r EXCEPT !["dismissal_kind"]   = fillna(@, s_None),
            !["player_dismissed"] = fillna(@, s_None),
            !["fielder"]          = replace_na(fillna(@, s_None), s_None),
            !["extras_type"]      = fillna(@, s_None),
            !["batting_team"]     = fillna(@, s_Unknown),
            !["bowling_team"]     = fillna(@, s_Unknown)]

\* lines 45-52
clean_deliveries(d) == DataFrame(d.cols, MapRows(d.rows, clean_delivery_row))

\* line 54: deliveries.merge(matches[['id', 'season']], left_on='match_id',
\* right_on='id', how='left'): one row per matching row of matches, in order of
\* matches, and one row with a missing id and season where there is none
merge_rows(r, mrows) ==
  LET same(mr) == mr["id"] = r["match_id"]
      joined(mr) == ("id" :> mr["id"]) @@ ("season" :> mr["season"]) @@ r
  IN  IF Filter(mrows, same) = <<>>
      THEN <<("id" :> NaNf) @@ ("season" :> NaNf) @@ r>>
      ELSE MapRows(Filter(mrows, same), joined)

merge_season(d, m) ==
  LET out(r) == merge_rows(r, m.rows)
  IN  DataFrame(d.cols \cup {"id", "season"}, FlatMap(d.rows, out))

\* line 55: deliveries['season'].isna().sum()
unmatched_count(d) ==
  Cardinality({i \in DOMAIN d.rows : d.rows[i]["season"] = NaNf})

\* line 58: deliveries.dropna(subset=['season'])
dropna_season(d) ==
  LET has(r) == r["season"] # NaNf IN DataFrame(d.cols, Filter(d.rows, has))

\* df.drop(columns=drop)
Without(df, drop) ==
  LET rest(r) == LET cell(c) == r[c] IN Row(df.cols \ drop, cell)
  IN  DataFrame(df.cols \ drop, MapRows(df.rows, rest))

\* lines 55-60 on the merged frame: the warning, the rows dropped, id dropped
season_checked(merged) ==
  [deliveries |-> Without(IF unmatched_count(merged) > 0
                          THEN dropna_season(merged) ELSE merged, {"id"}),
   log        |-> IF unmatched_count(merged) > 0
                  THEN <<[warning |-> "unmatched", count |-> unmatched_count(merged)]>>
                  ELSE <<>>]

\* lines 101-107 on one row: the team columns it has
standardize_row(r) ==
  LET cell(c) == IF c \in team_columns THEN canonicalize(r[c]) ELSE r[c]
  IN  Row(DOMAIN r, cell)

\* lines 101-107
standardize_teams(m) == DataFrame(m.cols, MapRows(m.rows, standardize_row))

\* lines 53-108, on the tables with their defaults filled
clean_data_rest(m1, d1) ==
  [matches    |-> standardize_teams(m1),
   deliveries |-> season_checked(merge_season(d1, m1)).deliveries,
   log        |-> season_checked(merge_season(d1, m1)).log]

\* clean_data(matches, deliveries): what it returns and prints, where it does not raise
clean_data(m, d) == clean_data_rest(clean_matches(m), clean_deliveries(d))

(***************************************************************************)
(* pandas: Series and group-by                                             *)
(*                                                                         *)
(* A Series is a sequence of <<label, value>> pairs in index order.  A     *)
(* result DataFrame is a sequence of row records.  pd.Series() and         *)
(* pd.DataFrame() are the empty sequence.                                  *)
(***************************************************************************)

Empty == <<>>

\* the columns that hold numbers
numeric_columns == {"id", "match_id", "season", "result_margin",
                    "batsman_runs", "total_runs"}

\* the cell x of column col is missing
isna(col, x) == IF col \in numeric_columns THEN x = NaNf ELSE x = NaN

RECURSIVE SumSeq(_)
SumSeq(s) == IF s = <<>> THEN 0 ELSE Head(s) + SumSeq(Tail(s))

\* the column col of df, as a sequence of cells
Column(df, col) == Listed([i \in DOMAIN df.rows |-> df.rows[i][col]])

\* the distinct elements of s in order of first appearance
Unique(s) ==
  LET first(i) == \A j \in 1..(i - 1) : s[j] # s[i]
      idx == {i \in DOMAIN s : first(i)}
      nth(k) == CHOOSE i \in idx : Cardinality({j \in idx : j <= i}) = k
  IN  Listed([k \in 1..Cardinality(idx) |-> s[nth(k)]])

\* s sorted by the strict order less, equal elements in their order in s: the
\* order numpy's default sort gives below 17 elements (insertion sort)
SortBy(s, less(_, _)) ==
  LET pos(i) == 1 + Cardinality({j \in DOMAIN s :
                       less(s[j], s[i]) \/ (~less(s[i], s[j]) /\ j < i)})
  IN  Listed([k \in DOMAIN s |-> s[CHOOSE i \in DOMAIN s : pos(i) = k]])

\* the series as it is, not sorted
sort_values_kept(series) == series

\* Series.sort_values(ascending=False): missing values last
sort_values_desc(series) ==
  LET less(a, b) == IF a[2] = NaNf THEN FALSE
                    ELSE IF b[2] = NaNf THEN TRUE ELSE a[2] > b[2]
  IN  SortBy(series, less)

\* .head(n)
head(s, n) == SubSeq(s, 1, IF Len(s) < n THEN Len(s) ELSE n)

\* Series.value_counts(): the count of every value that is not missing, in
\* order of first appearance, sorted by descending count
value_counts(cells) ==
  LET isval(x) == x # NaN
      vals == Filter(cells, isval)
      keys == Unique(vals)
      n(k) == Cardinality({i \in DOMAIN vals : vals[i] = k})
  IN  sort_values_desc(Listed([i \in DOMAIN keys |-> <<keys[i], n(keys[i])>>]))

\* the group keys of a str column: its values that are not missing, ascending
group_keys(df, col) ==
  LET isval(x) == x # NaN
  IN  SortBy(Unique(Filter(Column(df, col), isval)), str_less)

\* df.groupby(col)[val].sum()
groupby_sum(df, col, val) ==
  LET keys == group_keys(df, col)
      part(k) == LET in(r) == r[col] = k IN Filter(df.rows, in)
      total(k) == SumSeq(Column(DataFrame(df.cols, part(k)), val))
  IN  Listed([i \in DOMAIN keys |-> <<keys[i], total(keys[i])>>])

\* df.groupby(col)[val].count(): the cells of val that are not missing
groupby_count(df, col, val) ==
  LET keys == group_keys(df, col)
      n(k) == Cardinality({i \in DOMAIN df.rows :
                             df.rows[i][col] = k /\ ~isna(val, df.rows[i][val])})
  IN  Listed([i \in DOMAIN keys |-> <<keys[i], n(keys[i])>>])

\* (num, str) group keys in ascending order
pair_less(a, b) == a[1] < b[1] \/ (a[1] = b[1] /\ str_less(a[2], b[2]))

\* the group keys of df.groupby([num, col]), ascending; col is a str column
group_keys2(df, num, col) ==
  LET has(r) == r[col] # NaN
      rows == Filter(df.rows, has)
  IN  SortBy(Unique(Listed([i \in DOMAIN rows |-> <<rows[i][num], rows[i][col]>>])), pair_less)

\* df.groupby(['season', col])[val].sum().reset_index(), val a column of numbers
season_sum(df, col, val) ==
  LET keys == group_keys2(df, "season", col)
      part(k) == LET in(r) == r["season"] = k[1] /\ r[col] = k[2]
                 IN  Filter(df.rows, in)
      total(k) == SumSeq(Column(DataFrame(df.cols, part(k)), val))
  IN  Listed([i \in DOMAIN keys |->
         [season |-> keys[i][1], player |-> keys[i][2], value |-> total(keys[i])]])

\* df.groupby(['season', col])[val].count().reset_index()
season_count(df, col, val) ==
  LET keys == group_keys2(df, "season", col)
      n(k) == Cardinality({i \in DOMAIN df.rows :
                 /\ df.rows[i]["season"] = k[1]
                 /\ df.rows[i][col] = k[2]
                 /\ ~isna(val, df.rows[i][val])})
  IN  Listed([i \in DOMAIN keys |->
         [season |-> keys[i][1], player |-> keys[i][2], value |-> n(keys[i])]])

\* the selection with the last row that attains the maximum
season_idxmax_last(frame) ==
  LET seasons == SortBy(Unique(Listed([i \in DOMAIN frame |-> frame[i].season])), <)
      best(s) == CHOOSE i \in DOMAIN frame :
                   /\ frame[i].season = s
                   /\ \A j \in DOMAIN frame :
                        frame[j].season = s =>
                          \/ frame[j].value < frame[i].value
                          \/ (frame[j].value = frame[i].value /\ j <= i)
  IN  Listed([k \in DOMAIN seasons |-> frame[best(seasons[k])]])

\* the frame without the selection of the leaders
season_idxmax_all(frame) == frame

\* frame.loc[frame.groupby('season')[value].idxmax()]: for every season, in
\* ascending order, the first row of the frame that attains the season's maximum
season_idxmax(frame) ==
  LET seasons == SortBy(Unique(Listed([i \in DOMAIN frame |-> frame[i].season])), <)
      best(s) == CHOOSE i \in DOMAIN frame :
                   /\ frame[i].season = s
                   /\ \A j \in DOMAIN frame :
                        frame[j].season = s =>
                          \/ frame[j].value < frame[i].value
                          \/ (frame[j].value = frame[i].value /\ i <= j)
  IN  Listed([k \in DOMAIN seasons |-> frame[best(seasons[k])]])

(***************************************************************************)
(* data_processor.calculate_kpis: the value every KPI expression computes  *)
(***************************************************************************)

\* line 18: pd.concat([matches['team1'], matches['team2']]).value_counts()
team_matches(m) == value_counts(Column(m, "team1") \o Column(m, "team2"))

\* line 25: matches[matches['winner'] != 'No Result']['winner'].value_counts()
team_wins(m) ==
  LET decided(x) == x # s_No_Result IN value_counts(Filter(Column(m, "winner"), decided))

\* the value of label in a Series, missing if the label is not in its index
At(series, label) ==
  IF \E i \in DOMAIN series : series[i][1] = label
  THEN series[CHOOSE i \in DOMAIN series : series[i][1] = label][2]
  ELSE NaNf

Labels(series) == Listed([i \in DOMAIN series |-> series[i][1]])

\* the index of a - b: that of a when the two have the same index or b has
\* none, else the sorted union of the two
aligned_index(a, b) ==
  IF Labels(a) = Labels(b) \/ b = <<>> THEN Labels(a)
  ELSE IF a = <<>> THEN Labels(b)
  ELSE SortBy(Unique(Labels(a) \o Labels(b)), str_less)

\* a - b on the labels of index: missing where either lacks the label
sub_on(index, a, b) ==
  LET diff(l) == IF At(a, l) = NaNf \/ At(b, l) = NaNf THEN NaNf
                 ELSE At(a, l) - At(b, l)
  IN  Listed([i \in DOMAIN index |-> <<index[i], diff(index[i])>>])

\* a - b
series_sub(a, b) == sub_on(aligned_index(a, b), a, b)

\* series.fillna(other): a missing value takes other's value at the same label
series_fillna(series, other) ==
  LET filled(e) == IF e[2] = NaNf THEN <<e[1], At(other, e[1])>> ELSE e
  IN  MapRows(series, filled)

\* line 33: (kpis['team_matches'] - team_wins).fillna(kpis['team_matches'])
\*          .sort_values(ascending=False).head(1)
most_losses(tm, tw) == head(sort_values_desc(series_fillna(series_sub(tm, tw), tm)), 1)

\* line 40
toss_wins(m) == value_counts(Column(m, "toss_winner"))

\* line 49
runs_per_season(d) == season_sum(d, "batter", "batsman_runs")

\* line 50
orange_cap(d) == season_idxmax(runs_per_season(d))

\* the kinds with the run out among them
bowler_kinds_and_run_out ==
  {s_caught, s_bowled, s_lbw, s_stumped, s_caught_and_bowled, s_hit_wicket, s_run_out}

\* line 57: the dismissal kinds that credit the bowler
bowler_kinds == {s_caught, s_bowled, s_lbw, s_stumped, s_caught_and_bowled, s_hit_wicket}

wickets(d) ==
  LET credited(r) == r["dismissal_kind"] \in bowler_kinds
  IN  DataFrame(d.cols, Filter(d.rows, credited))

\* lines 58-59
purple_cap(d) == season_idxmax(season_count(wickets(d), "bowler", "player_dismissed"))

\* line 66
most_runs_total(d) == head(sort_values_desc(groupby_sum(d, "batter", "batsman_runs")), 10)

\* line 73
most_wickets_total(d) ==
  head(sort_values_desc(groupby_count(wickets(d), "bowler", "player_dismissed")), 10)

\* lines 80, 91: deliveries[deliveries['batsman_runs'] == n]
boundaries(d, n) ==
  LET hit(r) == r["batsman_runs"] = n IN DataFrame(d.cols, Filter(d.rows, hit))

\* lines 81, 92
most_boundaries(d, n) ==
  head(sort_values_desc(groupby_count(boundaries(d, n), "batter", "batsman_runs")), 10)

\* the per-season table with the runs of the boundaries summed, not counted
most_boundaries_per_season_summed(d, n) ==
  season_idxmax(season_sum(boundaries(d, n), "batter", "batsman_runs"))

\* lines 82-83, 93-94
most_boundaries_per_season(d, n) ==
  season_idxmax(season_count(boundaries(d, n), "batter", "batsman_runs"))

\* lines 102, 110, 118: deliveries[deliveries['dismissal_kind'] == kind]
dismissals(d, kind) ==
  LET out(r) == r["dismissal_kind"] = kind IN DataFrame(d.cols, Filter(d.rows, out))

\* lines 103, 111, 119
most_fielding(d, kind) ==
  head(sort_values_desc(groupby_count(dismissals(d, kind), "fielder", "player_dismissed")), 10)

\* line 126: the number of distinct matches of every batter of keys
matches_of(d, keys) ==
  LET n(k) == Cardinality({d.rows[i]["match_id"] :
                             i \in {j \in DOMAIN d.rows : d.rows[j]["batter"] = k}})
  IN  Listed([i \in DOMAIN keys |-> <<keys[i], n(keys[i])>>])

\* lines 126-127
most_matches_played(d) ==
  head(sort_values_desc(matches_of(d, group_keys(d, "batter"))), 10)

\* line 135 on the group keys: the runs of every (match_id, batting_team)
totals_of(d, keys) ==
  LET total(k) == SumSeq(Listed([i \in DOMAIN d.rows |->
                    IF d.rows[i]["match_id"] = k[1] /\ d.rows[i]["batting_team"] = k[2]
                    THEN d.rows[i]["total_runs"] ELSE 0]))
  IN  Listed([i \in DOMAIN keys |->
         [match_id |-> keys[i][1], batting_team |-> keys[i][2],
          total_runs |-> total(keys[i])]])

\* line 135: deliveries.groupby(['match_id', 'batting_team'])['total_runs'].sum()
team_totals(d) == totals_of(d, group_keys2(d, "match_id", "batting_team"))

\* lines 138-139
get_opponent(row) == IF row.batting_team = row.team1 THEN row.team2 ELSE row.team1

\* line 136 on one row: the left merge with matches[['id', 'team1', 'team2']]
merge_teams(t, mrows) ==
  LET same(mr) == mr["id"] = t.match_id
      joined(mr) == [match_id |-> t.match_id, batting_team |-> t.batting_team,
                     total_runs |-> t.total_runs,
                     team1 |-> mr["team1"], team2 |-> mr["team2"]]
  IN  IF Filter(mrows, same) = <<>>
      THEN <<[match_id |-> t.match_id, batting_team |-> t.batting_team,
              total_runs |-> t.total_runs, team1 |-> NaN, team2 |-> NaN]>>
      ELSE MapRows(Filter(mrows, same), joined)

\* lines 141-142 on one row
with_opponent(row) ==
  [match_id |-> row.match_id, batting_team |-> row.batting_team,
   opponent |-> get_opponent(row), total_runs |-> row.total_runs]

\* lines 135-142
team_totals_opponent(m, d) ==
  LET out(t) == merge_teams(t, m.rows)
  IN  MapRows(FlatMap(team_totals(d), out), with_opponent)

\* line 143: team_totals.sort_values('total_runs', ascending=False).head(10)
highest_team_totals(m, d) ==
  LET less(a, b) == a.total_runs > b.total_runs
  IN  head(SortBy(team_totals_opponent(m, d), less), 10)

\* line 151
most_pom_awards(m) ==
  LET named(x) == x # s_None
  IN  head(value_counts(Filter(Column(m, "player_of_match"), named)), 10)

\* line 158
stadium_matches(m) == value_counts(Column(m, "venue"))

\* the seasons of a frame of (season, player, value) rows, ascending
frame_seasons(frame) ==
  SortBy(Unique(Listed([i \in DOMAIN frame |-> frame[i].season])), <)

\* its players, ascending
frame_players(frame) ==
  SortBy(Unique(Listed([i \in DOMAIN frame |-> frame[i].player])), str_less)

\* the sum of the values of the rows of a frame that satisfy in
sum_where(frame, in(_)) ==
  SumSeq(Listed([i \in DOMAIN frame |-> IF in(frame[i]) THEN frame[i].value ELSE 0]))

\* line 166: the batters names by descending total, the first five
top_of(rps, names) ==
  LET total(b) == LET in(r) == r.player = b IN sum_where(rps, in)
  IN  Labels(head(sort_values_desc(
        Listed([i \in DOMAIN names |-> <<names[i], total(names[i])>>])), 5))

top_batters(rps) == top_of(rps, frame_players(rps))

\* the frame with the rows of every batter kept
of_batters_all(rps, top) == rps

\* line 168: runs_per_season[runs_per_season['batter'].isin(top_batters)]
of_batters(rps, top) ==
  LET istop(r) == r.player \in Range(top) IN Filter(rps, istop)

\* the grid of the runs of every season, not summed down the seasons
cumsum_grid_plain(rps, seasons, columns) ==
  LET upto(s, b) == LET in(r) == r.player = b /\ r.season = s IN sum_where(rps, in)
      line(s) == Listed([c \in DOMAIN columns |-> <<columns[c], upto(s, columns[c])>>])
  IN  Listed([k \in DOMAIN seasons |-> [season |-> seasons[k], runs |-> line(seasons[k])]])

\* line 169: .sort_index().fillna(0).cumsum(): a missing cell counts 0, and
\* every column is summed down the seasons
cumsum_grid(rps, seasons, columns) ==
  LET upto(s, b) == LET in(r) == r.player = b /\ r.season <= s IN sum_where(rps, in)
      line(s) == Listed([c \in DOMAIN columns |-> <<columns[c], upto(s, columns[c])>>])
  IN  Listed([k \in DOMAIN seasons |-> [season |-> seasons[k], runs |-> line(seasons[k])]])

\* lines 168-169: the pivot has the seasons as index and the batters as columns
pivot_cumsum(rps) == cumsum_grid(rps, frame_seasons(rps), frame_players(rps))

\* lines 165-169
cumulative_runs(d) ==
  pivot_cumsum(of_batters(runs_per_season(d), top_batters(runs_per_season(d))))

(***************************************************************************)
(* data_processor.calculate_kpis: the try blocks                           *)
(*                                                                         *)
(* env is the state of one call: the mapping kpis built so far, the local  *)
(* names bound so far, and whether an exception has left its try block     *)
(* uncaught.  Every block is skipped once one has.                         *)
(***************************************************************************)

kpi_keys ==
  {"total_matches", "team_matches", "most_wins", "most_losses", "toss_wins",
   "most_toss_wins", "orange_cap", "purple_cap", "most_runs_total",
   "most_wickets_total", "most_sixes", "most_sixes_per_season", "most_fours",
   "most_fours_per_season", "most_catches", "most_stumps", "most_run_outs",
   "most_matches_played", "highest_team_totals", "most_pom_awards",
   "stadium_matches", "cumulative_runs"}

\* line 6: kpis = {}
env0 == [kpis |-> <<>>, bound |-> {}, uncaught |-> FALSE]

\* kpis[key] = value
Put(env, key, value) == [env EXCEPT !.kpis = (key :> value) @@ @]

\* a local name is assigned
Bind(env, name) == [env EXCEPT !.bound = @ \cup {name}]

\* an exception no except clause of the block names
Uncaught(env) == [env EXCEPT !.uncaught = TRUE]

\* lines 10-14
block_total_matches(env, m) == Put(env, "total_matches", Len(m.rows))

\* lines 17-21: except KeyError
block_team_matches(env, m) ==
  IF {"team1", "team2"} \subseteq m.cols
  THEN Put(env, "team_matches", team_matches(m))
  ELSE Put(env, "team_matches", Empty)

\* lines 24-29: except KeyError
block_most_wins(env, m) ==
  IF "winner" \in m.cols
  THEN Put(Bind(env, "team_wins"), "most_wins", team_wins(m))
  ELSE Put(env, "most_wins", Empty)

\* lines 32-36: except NameError, raised where team_wins was never bound
block_most_losses(env, m) ==
  IF "team_wins" \in env.bound
  THEN Put(env, "most_losses", most_losses(env.kpis["team_matches"], team_wins(m)))
  ELSE Put(env, "most_losses", Empty)

\* the toss block with a handler that resets toss_wins only
block_toss_wins_partial(env, m) ==
  IF "toss_winner" \in m.cols
  THEN Put(Put(env, "toss_wins", toss_wins(m)), "most_toss_wins", head(toss_wins(m), 1))
  ELSE Put(env, "toss_wins", Empty)

\* lines 39-45: except KeyError
block_toss_wins(env, m) ==
  IF "toss_winner" \in m.cols
  THEN Put(Put(env, "toss_wins", toss_wins(m)), "most_toss_wins", head(toss_wins(m), 1))
  ELSE Put(Put(env, "toss_wins", Empty), "most_toss_wins", Empty)

\* lines 48-53: except KeyError
block_orange_cap(env, d) ==
  IF {"season", "batter", "batsman_runs"} \subseteq d.cols
  THEN Put(env, "orange_cap", orange_cap(d))
  ELSE Put(env, "orange_cap", Empty)

\* lines 56-62: except KeyError; wickets is bound once line 57 has run
block_purple_cap(env, d) ==
  IF "dismissal_kind" \notin d.cols THEN Put(env, "purple_cap", Empty)
  ELSE IF {"season", "bowler", "player_dismissed"} \subseteq d.cols
       THEN Put(Bind(env, "wickets"), "purple_cap", purple_cap(d))
       ELSE Put(Bind(env, "wickets"), "purple_cap", Empty)

\* lines 65-69: except KeyError
block_most_runs_total(env, d) ==
  IF {"batter", "batsman_runs"} \subseteq d.cols
  THEN Put(env, "most_runs_total", most_runs_total(d))
  ELSE Put(env, "most_runs_total", Empty)

\* lines 72-76: except NameError only; the KeyError of a missing column of
\* wickets leaves the block
block_most_wickets_total(env, d) ==
  IF "wickets" \notin env.bound THEN Put(env, "most_wickets_total", Empty)
  ELSE IF {"bowler", "player_dismissed"} \subseteq d.cols
       THEN Put(env, "most_wickets_total", most_wickets_total(d))
       ELSE Uncaught(env)

\* lines 79-87 (n = 6) and 90-98 (n = 4): except KeyError sets both keys to
\* empty, also when the first had been computed
block_boundaries(env, d, n, total_key, season_key) ==
  IF {"batsman_runs", "batter", "season"} \subseteq d.cols
  THEN Put(Put(env, total_key, most_boundaries(d, n)),
           season_key, most_boundaries_per_season(d, n))
  ELSE Put(Put(env, total_key, Empty), season_key, Empty)

\* lines 101-106, 109-114, 117-122: except KeyError
block_fielding(env, d, kind, key) ==
  IF {"dismissal_kind", "fielder", "player_dismissed"} \subseteq d.cols
  THEN Put(env, key, most_fielding(d, kind))
  ELSE Put(env, key, Empty)

\* lines 125-130: except KeyError
block_most_matches_played(env, d) ==
  IF {"batter", "match_id"} \subseteq d.cols
  THEN Put(env, "most_matches_played", most_matches_played(d))
  ELSE Put(env, "most_matches_played", Empty)

\* lines 133-147: except KeyError.  On a frame without rows, apply(axis=1)
\* returns a DataFrame and line 141 assigns it to one column: pandas raises
\* ValueError there in the versions that refuse it (apply_raises), which no
\* except clause of the block names
block_highest_team_totals(env, m, d, apply_raises) ==
  IF ~({"id", "team1", "team2"} \subseteq m.cols
       /\ {"match_id", "batting_team", "total_runs"} \subseteq d.cols)
  THEN Put(env, "highest_team_totals", Empty)
  ELSE IF team_totals_opponent(m, d) = <<>> /\ apply_raises THEN Uncaught(env)
  ELSE Put(env, "highest_team_totals", highest_team_totals(m, d))

\* lines 150-154: except KeyError
block_most_pom_awards(env, m) ==
  IF "player_of_match" \in m.cols
  THEN Put(env, "most_pom_awards", most_pom_awards(m))
  ELSE Put(env, "most_pom_awards", Empty)

\* lines 157-161: except KeyError
block_stadium_matches(env, m) ==
  IF "venue" \in m.cols
  THEN Put(env, "stadium_matches", stadium_matches(m))
  ELSE Put(env, "stadium_matches", Empty)

\* lines 164-173: except (KeyError, ValueError)
block_cumulative_runs(env, d) ==
  IF {"season", "batter", "batsman_runs"} \subseteq d.cols
  THEN Put(env, "cumulative_runs", cumulative_runs(d))
  ELSE Put(env, "cumulative_runs", Empty)

\* the try blocks of calculate_kpis, in source order
blocks ==
  <<"total_matches", "team_matches", "most_wins", "most_losses", "toss_wins",
    "orange_cap", "purple_cap", "most_runs_total", "most_wickets_total",
    "most_sixes", "most_fours", "most_catches", "most_stumps", "most_run_outs",
    "most_matches_played", "highest_team_totals", "most_pom_awards",
    "stadium_matches", "cumulative_runs">>

\* one try block, named by the first key it sets
run_block(env, block, m, d, apply_raises) ==
  CASE block = "total_matches"       -> block_total_matches(env, m)
    [] block = "team_matches"        -> block_team_matches(env, m)
    [] block = "most_wins"           -> block_most_wins(env, m)
    [] block = "most_losses"         -> block_most_losses(env, m)
    [] block = "toss_wins"           -> block_toss_wins(env, m)
    [] block = "orange_cap"          -> block_orange_cap(env, d)
    [] block = "purple_cap"          -> block_purple_cap(env, d)
    [] block = "most_runs_total"     -> block_most_runs_total(env, d)
    [] block = "most_wickets_total"  -> block_most_wickets_total(env, d)
    [] block = "most_sixes"          ->
         block_boundaries(env, d, 6, "most_sixes", "most_sixes_per_season")
    [] block = "most_fours"          ->
         block_boundaries(env, d, 4, "most_fours", "most_fours_per_season")
    [] block = "most_catches"        -> block_fielding(env, d, s_caught, "most_catches")
    [] block = "most_stumps"         -> block_fielding(env, d, s_stumped, "most_stumps")
    [] block = "most_run_outs"       -> block_fielding(env, d, s_run_out, "most_run_outs")
    [] block = "most_matches_played" -> block_most_matches_played(env, d)
    [] block = "highest_team_totals" -> block_highest_team_totals(env, m, d, apply_raises)
    [] block = "most_pom_awards"     -> block_most_pom_awards(env, m)
    [] block = "stadium_matches"     -> block_stadium_matches(env, m)
    [] block = "cumulative_runs"     -> block_cumulative_runs(env, d)

\* the blocks from the i-th on; the statements after a block run only if no
\* exception has left it
RECURSIVE run_blocks(_, _, _, _, _)
run_blocks(env, i, m, d, apply_raises) ==
  IF i > Len(blocks) \/ env.uncaught THEN env
  ELSE run_blocks(run_block(env, blocks[i], m, d, apply_raises), i + 1, m, d, apply_raises)

\* lines 8-178: the blocks in order; the outer except re-raises what left one
calculate_kpis(m, d, apply_raises) ==
  LET env == run_blocks(env0, 1, m, d, apply_raises)
  IN  IF env.uncaught THEN [raised |-> TRUE, value |-> <<>>]
      ELSE [raised |-> FALSE, value |-> env.kpis]

(***************************************************************************)
(* Every KPI on its own: the columns its expression reads and its value    *)
(***************************************************************************)

\* the columns of matches the expression of a key reads
reads_matches(key) ==
  CASE key = "team_matches"        -> {"team1", "team2"}
    [] key = "most_wins"           -> {"winner"}
    [] key = "most_losses"         -> {"team1", "team2", "winner"}
    [] key \in {"toss_wins", "most_toss_wins"} -> {"toss_winner"}
    [] key = "highest_team_totals" -> {"id", "team1", "team2"}
    [] key = "most_pom_awards"     -> {"player_of_match"}
    [] key = "stadium_matches"     -> {"venue"}
    [] OTHER                       -> {}

\* the columns of deliveries the expression of a key reads
reads_deliveries(key) ==
  CASE key \in {"orange_cap", "cumulative_runs"} -> {"season", "batter", "batsman_runs"}
    [] key = "purple_cap"          -> {"dismissal_kind", "season", "bowler", "player_dismissed"}
    [] key = "most_runs_total"     -> {"batter", "batsman_runs"}
    [] key = "most_wickets_total"  -> {"dismissal_kind", "bowler", "player_dismissed"}
    [] key \in {"most_sixes", "most_fours"} -> {"batsman_runs", "batter"}
    [] key \in {"most_sixes_per_season", "most_fours_per_season"} ->
         {"batsman_runs", "season", "batter"}
    [] key \in {"most_catches", "most_stumps", "most_run_outs"} ->
         {"dismissal_kind", "fielder", "player_dismissed"}
    [] key = "most_matches_played" -> {"batter", "match_id"}
    [] key = "highest_team_totals" -> {"match_id", "batting_team", "total_runs"}
    [] OTHER                       -> {}

\* the expression of key raises no KeyError on (m, d)
computable(key, m, d) ==
  reads_matches(key) \subseteq m.cols /\ reads_deliveries(key) \subseteq d.cols

\* the value the expression of key computes on (m, d)
kpi_value(key, m, d) ==
  CASE key = "total_matches"         -> Len(m.rows)
    [] key = "team_matches"          -> team_matches(m)
    [] key = "most_wins"             -> team_wins(m)
    [] key = "most_losses"           -> most_losses(team_matches(m), team_wins(m))
    [] key = "toss_wins"             -> toss_wins(m)
    [] key = "most_toss_wins"        -> head(toss_wins(m), 1)
    [] key = "orange_cap"            -> orange_cap(d)
    [] key = "purple_cap"            -> purple_cap(d)
    [] key = "most_runs_total"       -> most_runs_total(d)
    [] key = "most_wickets_total"    -> most_wickets_total(d)
    [] key = "most_sixes"            -> most_boundaries(d, 6)
    [] key = "most_sixes_per_season" -> most_boundaries_per_season(d, 6)
    [] key = "most_fours"            -> most_boundaries(d, 4)
    [] key = "most_fours_per_season" -> most_boundaries_per_season(d, 4)
    [] key = "most_catches"          -> most_fielding(d, s_caught)
    [] key = "most_stumps"           -> most_fielding(d, s_stumped)
    [] key = "most_run_outs"         -> most_fielding(d, s_run_out)
    [] key = "most_matches_played"   -> most_matches_played(d)
    [] key = "highest_team_totals"   -> highest_team_totals(m, d)
    [] key = "most_pom_awards"       -> most_pom_awards(m)
    [] key = "stadium_matches"       -> stadium_matches(m)
    [] key = "cumulative_runs"       -> cumulative_runs(d)

(***************************************************************************)
(* data_processor.save_precomputed_stats                                   *)
(***************************************************************************)

\* line 185: isinstance(data, (pd.DataFrame, pd.Series)) and not data.empty
is_table(key) == key # "total_matches"

writable(mapping) == {k \in DOMAIN mapping : is_table(k) /\ mapping[k] # Empty}

\* the files of the directory if the first failure of to_json ended the loop
save_precomputed_stats_aborting(dir, mapping, makedirs_ok, failing) ==
  IF makedirs_ok /\ writable(mapping) \cap failing = {} THEN dir \cup writable(mapping) ELSE dir

\* the files of the directory after the call: nothing is written if makedirs
\* fails, and no file for a key whose to_json fails
save_precomputed_stats(dir, mapping, makedirs_ok, failing) ==
  IF makedirs_ok THEN dir \cup (writable(mapping) \ failing) ELSE dir

\* the warnings the call prints
save_warnings(mapping, makedirs_ok, failing) ==
  IF ~makedirs_ok THEN <<[warning |-> "makedirs", count |-> 0]>>
  ELSE IF writable(mapping) \cap failing # {}
       THEN <<[warning |-> "to_json", count |-> Cardinality(writable(mapping) \cap failing)]>>
       ELSE <<>>

(***************************************************************************)
(* The input files: the cells and rows the runs are checked on             *)
(***************************************************************************)

t_Deccan_Chargers == <<"D","e","c","c","a","n"," ","C","h","a","r","g","e","r","s">>

t_deccan_chargers == <<"d","e","c","c","a","n"," ","c","h","a","r","g","e","r","s">>

t_Mumbai_Indians == <<"M","u","m","b","a","i"," ","I","n","d","i","a","n","s">>

t_MUMBAI_INDIANS_padded == <<" ","M","U","M","B","A","I"," ","I","N","D","I","A","N","S"," ">>

t_Kochi_Tuskers_Kerala == <<"K","o","c","h","i"," ","T","u","s","k","e","r","s"," ","K","e","r","a","l","a">>

t_Sunrisers_Hyderabad == <<"S","u","n","r","i","s","e","r","s"," ","H","y","d","e","r","a","b","a","d">>

t_Royal_Challengers_Bengaluru == <<"R","o","y","a","l"," ","C","h","a","l","l","e","n","g","e","r","s"," ","B","e","n","g","a","l","u","r","u">>

p_Kohli == <<"V"," ","K","o","h","l","i">>

p_Gayle == <<"C","H"," ","G","a","y","l","e">>

p_Malinga == <<"S","L"," ","M","a","l","i","n","g","a">>

p_Bumrah == <<"J","J"," ","B","u","m","r","a","h">>

p_Dhoni == <<"M","S"," ","D","h","o","n","i">>

v_Eden == <<"E","d","e","n"," ","G","a","r","d","e","n","s">>

v_Wankhede == <<"W","a","n","k","h","e","d","e"," ","S","t","a","d","i","u","m">>

c_Kolkata == <<"K","o","l","k","a","t","a">>

c_Mumbai == <<"M","u","m","b","a","i">>

x_DL == <<"D","/","L">>

x_wides == <<"w","i","d","e","s">>

l_2007_08 == <<"2","0","0","7","/","0","8">>

l_2020_21 == <<"2","0","2","0","/","2","1">>

l_2009 == <<"2","0","0","9">>

matches_columns == {"id", "season", "city", "team1", "team2", "toss_winner", "winner",
                    "result_margin", "method", "player_of_match", "venue"}

deliveries_columns == {"match_id", "batter", "bowler", "batsman_runs", "total_runs",
                       "extras_type", "dismissal_kind", "player_dismissed", "fielder",
                       "batting_team", "bowling_team"}

\* a decided match between an alias name and a canonical name
MatchDecided(id) ==
  [id |-> id, season |-> l_2007_08, city |-> c_Kolkata,
   team1 |-> t_Deccan_Chargers, team2 |-> t_Mumbai_Indians,
   toss_winner |-> t_MUMBAI_INDIANS_padded, winner |-> t_deccan_chargers,
   result_margin |-> 5, method |-> x_DL, player_of_match |-> p_Gayle,
   venue |-> v_Eden]

\* an abandoned match: every optional cell is missing
MatchAbandoned(id) ==
  [id |-> id, season |-> l_2020_21, city |-> NaN,
   team1 |-> t_Mumbai_Indians, team2 |-> t_Kochi_Tuskers_Kerala,
   toss_winner |-> NaN, winner |-> NaN,
   result_margin |-> NaNf, method |-> NaN, player_of_match |-> NaN,
   venue |-> v_Wankhede]

\* a decided match won by the second team, under an alias name
MatchAway(id) ==
  [id |-> id, season |-> l_2009, city |-> c_Mumbai,
   team1 |-> t_Sunrisers_Hyderabad, team2 |-> t_Royal_Challengers_Bengaluru,
   toss_winner |-> t_Sunrisers_Hyderabad, winner |-> t_Royal_Challengers_Bengaluru,
   result_margin |-> 0, method |-> NaN, player_of_match |-> p_Kohli,
   venue |-> v_Wankhede]

\* a six, nobody out, batting team under its alias name
BallSix(id) ==
  [match_id |-> id, batter |-> p_Kohli, bowler |-> p_Malinga,
   batsman_runs |-> 6, total_runs |-> 6, extras_type |-> NaN,
   dismissal_kind |-> NaN, player_dismissed |-> NaN, fielder |-> NaN,
   batting_team |-> t_Deccan_Chargers, bowling_team |-> t_Mumbai_Indians]

\* a wide on which the batter is caught
BallCaught(id) ==
  [match_id |-> id, batter |-> p_Gayle, bowler |-> p_Bumrah,
   batsman_runs |-> 0, total_runs |-> 1, extras_type |-> x_wides,
   dismissal_kind |-> s_caught, player_dismissed |-> p_Gayle, fielder |-> p_Dhoni,
   batting_team |-> t_Mumbai_Indians, bowling_team |-> t_Deccan_Chargers]

\* a four with a run out, the teams missing
BallRunOut(id) ==
  [match_id |-> id, batter |-> p_Gayle, bowler |-> p_Malinga,
   batsman_runs |-> 4, total_runs |-> 4, extras_type |-> NaN,
   dismissal_kind |-> s_run_out, player_dismissed |-> p_Kohli, fielder |-> p_Bumrah,
   batting_team |-> NaN, bowling_team |-> NaN]

\* a dot ball on which the batter is bowled
BallBowled(id) ==
  [match_id |-> id, batter |-> p_Dhoni, bowler |-> p_Malinga,
   batsman_runs |-> 0, total_runs |-> 0, extras_type |-> NaN,
   dismissal_kind |-> s_bowled, player_dismissed |-> p_Dhoni, fielder |-> NaN,
   batting_team |-> t_Mumbai_Indians, bowling_team |-> t_Deccan_Chargers]

\* the largest number of rows of the two files together
MaxRows == 4

\* the rows of matches.csv: two of them carry the same id
MatchRows == {MatchDecided(1), MatchAway(1), MatchAbandoned(2)}

\* the rows of deliveries.csv
DeliveryRows == {BallSix(1), BallCaught(1), BallBowled(1), BallRunOut(2)}

\* the sequences over S of length n
SeqN(S, n) == [1..n -> S]

\* the columns one of which a file may lack
droppable == {"extras_type", "bowler", "venue"}

no_call == <<>>

(***************************************************************************)
(* The pipeline of streamlit_app.py: get_data, then get_kpis               *)
(***************************************************************************)

InitFiles ==
  \/ /\ files = {"matches.csv", "deliveries.csv"}
     /\ \E nm \in 0..MaxRows : \E nd \in 0..(MaxRows - nm) :
        \E mrows \in SeqN(MatchRows, nm) : \E drows \in SeqN(DeliveryRows, nd) :
        \E drop \in {{}} \cup {{c} : c \in droppable} :
          csv = [matches    |-> Without(DataFrame(matches_columns, mrows), drop),
                 deliveries |-> Without(DataFrame(deliveries_columns, drows), drop)]
  \/ /\ files \in (SUBSET {"matches.csv", "deliveries.csv"}) \ {{"matches.csv", "deliveries.csv"}}
     /\ csv = [matches |-> DataFrame({}, <<>>), deliveries |-> DataFrame({}, <<>>)]

Init ==
  /\ InitFiles
  /\ pc = "start"
  /\ matches = DataFrame({}, <<>>)
  /\ deliveries = DataFrame({}, <<>>)
  /\ log = <<>>
  /\ kpis = [raised |-> FALSE, value |-> <<>>]
  /\ stats = {}
  /\ arg = no_call
  /\ ret = no_call

\* load_data without the test of os.path.exists on line 9
load_data_unchecked ==
  /\ pc = "start"
  /\ pc' = "loaded"
  /\ matches' = csv.matches
  /\ deliveries' = csv.deliveries
  /\ UNCHANGED <<files, csv, log, kpis, stats, arg, ret>>

\* data_loader.load_data
load_data ==
  /\ pc = "start"
  /\ IF files = {"matches.csv", "deliveries.csv"}
     THEN /\ pc' = "loaded"
          /\ matches' = csv.matches
          /\ deliveries' = csv.deliveries
     ELSE /\ pc' = "FileNotFoundError"
          /\ UNCHANGED <<matches, deliveries>>
  /\ UNCHANGED <<files, csv, log, kpis, stats, arg, ret>>

\* data_loader.clean_data
clean_data_call ==
  /\ pc = "loaded"
  /\ IF clean_data_exc(matches, deliveries) = "none"
     THEN \E out \in {clean_data(matches, deliveries)} :
            /\ pc' = "cleaned"
            /\ matches' = out.matches
            /\ deliveries' = out.deliveries
            /\ log' = log \o out.log
     ELSE /\ pc' = clean_data_exc(matches, deliveries)
          /\ UNCHANGED <<matches, deliveries, log>>
  /\ UNCHANGED <<files, csv, kpis, stats, arg, ret>>

\* data_processor.calculate_kpis
calculate_kpis_call ==
  /\ pc = "cleaned"
  /\ \E apply_raises \in BOOLEAN :
       kpis' = calculate_kpis(matches, deliveries, apply_raises)
  /\ pc' = IF kpis'.raised THEN "Exception" ELSE "computed"
  /\ UNCHANGED <<files, csv, matches, deliveries, log, stats, arg, ret>>

\* the files whose to_json may fail in one call: at most one of those written
io_failures(mapping) == {{}} \cup {{k} : k \in writable(mapping)}

\* data_processor.save_precomputed_stats
save_precomputed_stats_call ==
  /\ pc = "computed"
  /\ \E makedirs_ok \in BOOLEAN :
     \E failing \in IF makedirs_ok THEN io_failures(kpis.value) ELSE {{}} :
       /\ stats' = save_precomputed_stats(stats, kpis.value, makedirs_ok, failing)
       /\ log' = log \o save_warnings(kpis.value, makedirs_ok, failing)
  /\ pc' = "saved"
  /\ UNCHANGED <<files, csv, matches, deliveries, kpis, arg, ret>>

Next ==
  \/ load_data
  \/ clean_data_call
  \/ calculate_kpis_call
  \/ save_precomputed_stats_call

Spec == Init /\ [][Next]_vars

(***************************************************************************)
(* calculate_kpis called on its own: get_kpis on tables a caller passes,   *)
(* which may lack a column the KPIs read; the tables hold one row less     *)
(* than the files of the pipeline                                          *)
(***************************************************************************)

\* the columns of the cleaned tables that calculate_kpis reads
kpi_columns == {"id", "team1", "team2", "winner", "toss_winner", "player_of_match",
                "venue", "season", "match_id", "batter", "bowler", "batsman_runs",
                "total_runs", "dismissal_kind", "player_dismissed", "fielder",
                "batting_team"}

InitKpis ==
  /\ files = {"matches.csv", "deliveries.csv"}
  /\ \E nm \in 0..(MaxRows - 1) : \E nd \in 0..(MaxRows - 1 - nm) :
     \E mrows \in SeqN(MatchRows, nm) : \E drows \in SeqN(DeliveryRows, nd) :
     \E out \in {clean_data(DataFrame(matches_columns, mrows),
                            DataFrame(deliveries_columns, drows))} :
     \E drop \in {{}} \cup {{c} : c \in kpi_columns} :
       /\ csv = [matches    |-> DataFrame(matches_columns, mrows),
                 deliveries |-> DataFrame(deliveries_columns, drows)]
       /\ matches = Without(out.matches, drop)
       /\ deliveries = Without(out.deliveries, drop)
  /\ pc = "cleaned"
  /\ log = <<>>
  /\ kpis = [raised |-> FALSE, value |-> <<>>]
  /\ stats = {}
  /\ arg = no_call
  /\ ret = no_call

NextKpis ==
  \/ calculate_kpis_call
  \/ save_precomputed_stats_call

SpecKpis == InitKpis /\ [][NextKpis]_vars

(***************************************************************************)
(* clean_season called on the labels of the seasons                        *)
(***************************************************************************)

\* the first year of the seasons a label names
FirstSeason == 2007

\* the last one
LastSeason == 2024

\* the forms of a label of the season that starts in year y: 'y', 'y/zz',
\* 'y-zz', 'y/z', 'y-z' (z the year after, zz its last two digits), and 'y/'
label_forms == {"year", "slash2", "dash2", "slash4", "dash4", "open"}

two_digits(n) == <<DigitChars[((n \div 10) % 10) + 1], DigitChars[(n % 10) + 1]>>

\* the label a call names: its form, and whether whitespace surrounds it
label_of(a) ==
  LET y    == str_of(a.year)
      text == CASE a.form = "year"   -> y
                [] a.form = "slash2" -> y \o <<"/">> \o two_digits(a.year + 1)
                [] a.form = "dash2"  -> y \o <<"-">> \o two_digits(a.year + 1)
                [] a.form = "slash4" -> y \o <<"/">> \o str_of(a.year + 1)
                [] a.form = "dash4"  -> y \o <<"-">> \o str_of(a.year + 1)
                [] a.form = "open"   -> y \o <<"/">>
  IN  IF a.pad THEN <<" ">> \o text \o <<" ">> ELSE text

InitSeason ==
  /\ arg \in [year : FirstSeason..LastSeason, form : label_forms, pad : BOOLEAN]
  /\ ret = no_call
  /\ pc = "call"
  /\ files = {}
  /\ csv = [matches |-> DataFrame({}, <<>>), deliveries |-> DataFrame({}, <<>>)]
  /\ matches = DataFrame({}, <<>>)
  /\ deliveries = DataFrame({}, <<>>)
  /\ log = <<>>
  /\ kpis = [raised |-> FALSE, value |-> <<>>]
  /\ stats = {}

\* matches['season'].apply(clean_season), on one cell
clean_season_call ==
  /\ pc = "call"
  /\ IF clean_season_raises(label_of(arg))
     THEN pc' = "ValueError" /\ ret' = ret
     ELSE pc' = "returned" /\ ret' = clean_season(label_of(arg))
  /\ UNCHANGED <<files, csv, matches, deliveries, log, kpis, stats, arg>>

NextSeason == clean_season_call

SpecSeason == InitSeason /\ [][NextSeason]_vars

(***************************************************************************)
(* The team column loop applied to one cell                                *)
(***************************************************************************)

\* the keys and the values of the alias table
alias_names ==
  {team_mapping[i][1] : i \in DOMAIN team_mapping}
    \cup {team_mapping[i][2] : i \in DOMAIN team_mapping}

\* names that are in no table, the defaults, and a missing cell
other_names ==
  {t_Kochi_Tuskers_Kerala, t_MUMBAI_INDIANS_padded, s_No_Result, s_None,
   s_Unknown, NaN}

\* every name as it is, in upper case, in title case, and with whitespace around it
team_names ==
  alias_names \cup other_names
    \cup {str_upper(n) : n \in alias_names}
    \cup {str_title(n) : n \in alias_names}
    \cup {<<" ">> \o n \o <<" ">> : n \in alias_names}

InitTeam ==
  /\ arg \in team_names
  /\ ret = no_call
  /\ pc = "call"
  /\ files = {}
  /\ csv = [matches |-> DataFrame({}, <<>>), deliveries |-> DataFrame({}, <<>>)]
  /\ matches = DataFrame({}, <<>>)
  /\ deliveries = DataFrame({}, <<>>)
  /\ log = <<>>
  /\ kpis = [raised |-> FALSE, value |-> <<>>]
  /\ stats = {}

\* lines 103-107 on one cell of a team column
canonicalize_call ==
  /\ pc = "call"
  /\ ret' = canonicalize(arg)
  /\ pc' = "returned"
  /\ UNCHANGED <<files, csv, matches, deliveries, log, kpis, stats, arg>>

NextTeam == canonicalize_call

SpecTeam == InitTeam /\ [][NextTeam]_vars


(***************************************************************************)
(* The pipeline on long tables: more players and venues than a leaderboard *)
(* holds                                                                   *)
(***************************************************************************)

\* the largest number of rows of a long table, and of its players and venues
MaxKeys == 12

\* the name of the player or venue number i
name_of(letter, i) == <<letter, " ">> \o str_of(i)

\* the number of the player and venue of row i when the table names k of
\* them: the rows count down from k, so the last ones come most often
key_of(i, k) == k - ((i - 1) % k)

\* row i of a long matches.csv: two seasons, row by row in turn
LongMatch(i, k) ==
  [id |-> i, season |-> IF i % 2 = 0 THEN l_2009 ELSE l_2007_08, city |-> c_Mumbai,
   team1 |-> t_Mumbai_Indians, team2 |-> t_Kochi_Tuskers_Kerala,
   toss_winner |-> t_Mumbai_Indians, winner |-> t_Mumbai_Indians,
   result_margin |-> 5, method |-> NaN,
   player_of_match |-> name_of("P", key_of(i, k)),
   venue |-> name_of("V", key_of(i, k))]

\* row i of a long deliveries.csv: a ball of match i
LongBall(i, k, kind, runs) ==
  [match_id |-> i, batter |-> name_of("P", key_of(i, k)),
   bowler |-> name_of("B", key_of(i, k)),
   batsman_runs |-> runs, total_runs |-> runs, extras_type |-> NaN,
   dismissal_kind |-> kind, player_dismissed |-> name_of("P", key_of(i, k)),
   fielder |-> name_of("F", key_of(i, k)),
   batting_team |-> t_Mumbai_Indians, bowling_team |-> t_Kochi_Tuskers_Kerala]

InitTop ==
  /\ files = {"matches.csv", "deliveries.csv"}
  /\ \E n \in 0..MaxKeys : \E k \in 1..(IF n = 0 THEN 1 ELSE n) :
     \E kind \in {s_caught, s_stumped, s_run_out} : \E runs \in {4, 6} :
       csv = [matches    |-> DataFrame(matches_columns,
                               Listed([i \in 1..n |-> LongMatch(i, k)])),
              deliveries |-> DataFrame(deliveries_columns,
                               Listed([i \in 1..n |-> LongBall(i, k, kind, runs)]))]
  /\ pc = "start"
  /\ matches = DataFrame({}, <<>>)
  /\ deliveries = DataFrame({}, <<>>)
  /\ log = <<>>
  /\ kpis = [raised |-> FALSE, value |-> <<>>]
  /\ stats = {}
  /\ arg = no_call
  /\ ret = no_call

NextTop ==
  \/ load_data
  \/ clean_data_call
  \/ calculate_kpis_call

SpecTop == InitTop /\ [][NextTop]_vars

(***************************************************************************)
(* The objects behind the names: what a call leaves in the tables it was   *)
(* passed                                                                  *)
(***************************************************************************)

\* the object df.copy() returns for the object ref: a new one
df_copy_aliased(ref) == ref

\* data_loader.py lines 20 and 45: matches.copy(), deliveries.copy()
df_copy(ref) ==
  IF ref = "arg_matches" THEN "copy_matches" ELSE "copy_deliveries"

\* the objects after clean_data(m, d): lines 35-42 and 101-107 assign columns
\* of the object the name matches is bound to, lines 46-52 columns of the
\* object the name deliveries is bound to; from line 54 on deliveries names
\* the new frames of merge, dropna and drop
clean_data_objects(m, d) ==
  LET before == [arg_matches |-> m, arg_deliveries |-> d,
                 copy_matches |-> m, copy_deliveries |-> d]
      named_m == df_copy("arg_matches")
      named_d == df_copy("arg_deliveries")
  IN  [[before EXCEPT ![named_m] = standardize_teams(clean_matches(m))]
         EXCEPT ![named_d] = clean_deliveries(d)]

\* the objects after calculate_kpis(m, d): every frame it assigns to
\* (team_totals, line 141) is the result of a groupby or a merge
calculate_kpis_objects(m, d) == [arg_matches |-> m, arg_deliveries |-> d]

InitFrames ==
  /\ files = {"matches.csv", "deliveries.csv"}
  /\ \E nm \in 0..MaxRows : \E nd \in 0..(MaxRows - nm) :
     \E mrows \in SeqN(MatchRows, nm) : \E drows \in SeqN(DeliveryRows, nd) :
       csv = [matches    |-> DataFrame(matches_columns, mrows),
              deliveries |-> DataFrame(deliveries_columns, drows)]
  /\ pc = "loaded"
  /\ matches = csv.matches
  /\ deliveries = csv.deliveries
  /\ log = <<>>
  /\ kpis = [raised |-> FALSE, value |-> <<>>]
  /\ stats = {}
  /\ arg = no_call
  /\ ret = no_call

\* get_data: clean_data(matches, deliveries); arg is what the call has left
\* in the two tables it was passed
clean_data_frames ==
  /\ pc = "loaded"
  /\ clean_data_exc(matches, deliveries) = "none"
  /\ \E out \in {clean_data(matches, deliveries)} :
     \E objects \in {clean_data_objects(matches, deliveries)} :
       /\ pc' = "cleaned"
       /\ matches' = out.matches
       /\ deliveries' = out.deliveries
       /\ log' = log \o out.log
       /\ arg' = [matches |-> objects.arg_matches, deliveries |-> objects.arg_deliveries]
  /\ UNCHANGED <<files, csv, kpis, stats, ret>>

\* get_kpis: calculate_kpis(matches, deliveries)
calculate_kpis_frames ==
  /\ pc = "cleaned"
  /\ \E apply_raises \in BOOLEAN :
     \E objects \in {calculate_kpis_objects(matches, deliveries)} :
       /\ kpis' = calculate_kpis(matches, deliveries, apply_raises)
       /\ arg' = [matches |-> objects.arg_matches, deliveries |-> objects.arg_deliveries]
  /\ pc' = IF kpis'.raised THEN "Exception" ELSE "computed"
  /\ UNCHANGED <<files, csv, matches, deliveries, log, stats, ret>>

\* a second calculate_kpis on the tables the first call was passed, in the
\* same process: apply behaves as it did in the first call
calculate_kpis_again ==
  /\ pc = "computed"
  /\ \E apply_raises \in BOOLEAN :
       /\ calculate_kpis(matches, deliveries, apply_raises) = kpis
       /\ ret' = calculate_kpis(arg.matches, arg.deliveries, apply_raises)
  /\ pc' = "recomputed"
  /\ UNCHANGED <<files, csv, matches, deliveries, log, kpis, stats, arg>>

NextFrames ==
  \/ clean_data_frames
  \/ calculate_kpis_frames
  \/ calculate_kpis_again

SpecFrames == InitFrames /\ [][NextFrames]_vars

(***************************************************************************)
(* The pipeline on two seasons of two batters: boundaries of both sizes by *)
(* the same batter in the same season                                      *)
(***************************************************************************)

\* the largest number of rows of deliveries.csv
MaxBalls == 3

\* the bowler a batter faces
bowler_of(batter) == IF batter = p_Kohli THEN p_Malinga ELSE p_Bumrah

\* a boundary of the given size in match id, on which the batter is bowled
\* (kind s_bowled) or nobody is out (kind missing)
CapBall(id, batter, runs, kind) ==
  [match_id |-> id, batter |-> batter, bowler |-> bowler_of(batter),
   batsman_runs |-> runs, total_runs |-> runs, extras_type |-> NaN,
   dismissal_kind |-> kind,
   player_dismissed |-> IF kind = NaN THEN NaN ELSE batter, fielder |-> NaN,
   batting_team |-> t_Mumbai_Indians, bowling_team |-> t_Deccan_Chargers]

\* the rows of deliveries.csv: the batter is bowled on the fours
CapRows ==
  {CapBall(id, batter, runs, IF runs = 4 THEN s_bowled ELSE NaN) :
     id \in {1, 2}, batter \in {p_Kohli, p_Gayle}, runs \in {4, 6}}

InitCaps ==
  /\ files = {"matches.csv", "deliveries.csv"}
  /\ \E nd \in 0..MaxBalls : \E drows \in SeqN(CapRows, nd) :
       csv = [matches    |-> DataFrame(matches_columns, <<MatchDecided(1), MatchAway(2)>>),
              deliveries |-> DataFrame(deliveries_columns, drows)]
  /\ pc = "loaded"
  /\ matches = csv.matches
  /\ deliveries = csv.deliveries
  /\ log = <<>>
  /\ kpis = [raised |-> FALSE, value |-> <<>>]
  /\ stats = {}
  /\ arg = no_call
  /\ ret = no_call

NextCaps ==
  \/ clean_data_call
  \/ calculate_kpis_call

SpecCaps == InitCaps /\ [][NextCaps]_vars

(***************************************************************************)
(* Runs of the pipeline one after the other, writing to one output         *)
(* directory                                                               *)
(***************************************************************************)

\* the largest number of rows of each file of a run
MaxRunRows == 1

\* the two files of a run
RunInputs ==
  {[matches    |-> DataFrame(matches_columns, mrows),
    deliveries |-> DataFrame(deliveries_columns, drows)] :
     mrows \in UNION {SeqN(MatchRows, n) : n \in 0..MaxRunRows},
     drows \in UNION {SeqN(DeliveryRows, n) : n \in 0..MaxRunRows}}

InitRuns ==
  /\ files = {"matches.csv", "deliveries.csv"}
  /\ csv \in RunInputs
  /\ pc = "start"
  /\ matches = DataFrame({}, <<>>)
  /\ deliveries = DataFrame({}, <<>>)
  /\ log = <<>>
  /\ kpis = [raised |-> FALSE, value |-> <<>>]
  /\ stats = {}
  /\ arg = no_call
  /\ ret = no_call

\* the next invocation of streamlit_app.py: other files, a new process, the
\* directory ../data/precomputed_stats as the last run left it
next_run ==
  /\ pc = "saved"
  /\ csv' \in RunInputs
  /\ pc' = "start"
  /\ matches' = DataFrame({}, <<>>)
  /\ deliveries' = DataFrame({}, <<>>)
  /\ log' = <<>>
  /\ kpis' = [raised |-> FALSE, value |-> <<>>]
  /\ UNCHANGED <<files, stats, arg, ret>>

NextRuns ==
  \/ load_data
  \/ clean_data_call
  \/ calculate_kpis_call
  \/ save_precomputed_stats_call
  \/ next_run

SpecRuns == InitRuns /\ [][NextRuns]_vars

(***************************************************************************)
(* streamlit_app.py after get_kpis: the tabs read the mapping              *)
(***************************************************************************)

\* the keys streamlit_app.py subscripts kpis with (lines 55-575)
dashboard_reads ==
  {"total_matches", "most_wins", "most_losses", "season_winners", "most_titles",
   "cumulative_runs", "team_matches", "toss_wins", "highest_team_totals",
   "orange_cap", "purple_cap", "most_runs_total", "most_wickets_total",
   "most_sixes", "most_sixes_per_season", "most_fours", "most_fours_per_season",
   "most_catches", "most_stumps", "most_run_outs", "most_matches_played",
   "most_pom_awards", "stadium_matches"}

\* lines 43-575: st.stop() on an empty table, else the tabs subscript kpis
render_dashboard ==
  /\ pc = "saved"
  /\ pc' = IF matches.rows = <<>> \/ deliveries.rows = <<>> THEN "stopped"
           ELSE IF dashboard_reads \subseteq DOMAIN kpis.value THEN "rendered"
           ELSE "dashboard KeyError"
  /\ UNCHANGED <<files, csv, matches, deliveries, log, kpis, stats, arg, ret>>

NextDashboard ==
  \/ load_data
  \/ clean_data_call
  \/ calculate_kpis_call
  \/ save_precomputed_stats_call
  \/ render_dashboard

SpecDashboard == InitRuns /\ [][NextDashboard]_vars
(***************************************************************************)
(* Properties                                                              *)
(***************************************************************************)

\* the cells that tell the rows of deliveries.csv apart and that clean_data
\* never writes
ball_columns == {"match_id", "batter", "bowler", "batsman_runs", "total_runs"}

\* r is the cleaned form of the input row q, as far as those cells tell
same_ball(q, r) == \A c \in ball_columns \cap DOMAIN q : r[c] = q[c]

\* the ids of the rows of matches.csv
csv_match_ids == {csv.matches.rows[i]["id"] : i \in DOMAIN csv.matches.rows}

\* the rows of deliveries.csv whose match_id is the id of a row of matches.csv
csv_matched ==
  Filter(csv.deliveries.rows, LAMBDA q : q["match_id"] \in csv_match_ids)

\* the failing computation of key on (m, d): its expression reads a column
\* the tables lack
kpi_fails(key, m, d) == ~computable(key, m, d)

\* C1: whenever calculate_kpis runs on the cleaned tables it returns normally
\* (no exception leaves it), every KPI whose computation fails is empty, and
\* every other KPI holds its computed value.
C1_FailureIsLocal ==
  /\ pc # "Exception"
  /\ pc = "computed" =>
       \A key \in kpi_keys \ {"total_matches"} :
         kpi_fails(key, matches, deliveries) => kpis.value[key] = Empty

\* C2: after calculate_kpis returns, every KPI whose own computation succeeds
\* on the tables holds the value of that computation, whichever other KPI
\* failed.
C2_NoMasking ==
  pc = "computed" =>
    \A key \in kpi_keys :
      computable(key, matches, deliveries) =>
        kpis.value[key] = kpi_value(key, matches, deliveries)

\* C3: after clean_data every team column of matches and the columns
\* batting_team and bowling_team of deliveries hold canonical names, that is
\* names canonicalization leaves as they are.
C3_AllTeamColumnsCanonical ==
  pc = "cleaned" =>
    /\ \A i \in DOMAIN matches.rows :
         \A col \in team_columns \cap matches.cols :
           canonicalize(matches.rows[i][col]) = matches.rows[i][col]
    /\ \A i \in DOMAIN deliveries.rows :
         \A col \in {"batting_team", "bowling_team"} :
           canonicalize(deliveries.rows[i][col]) = deliveries.rows[i][col]

\* C4: every row of highest_team_totals names as opponent one of the two
\* teams of a match with the row's id, and not the batting team under its
\* canonical name.
C4_OpponentIsTheOtherTeam ==
  pc = "computed" =>
    \A i \in DOMAIN kpis.value["highest_team_totals"] :
      LET t == kpis.value["highest_team_totals"][i]
      IN  /\ \E j \in DOMAIN matches.rows :
               /\ matches.rows[j]["id"] = t.match_id
               /\ t.opponent \in {matches.rows[j]["team1"], matches.rows[j]["team2"]}
          /\ t.opponent # canonicalize(t.batting_team)

\* C5: after clean_data the deliveries are exactly the rows of the input
\* whose match_id is the id of a match, in their order and each one once; no
\* season is missing, and every season is the normalized season of a match
\* with the row's match_id.
C5_DeliveriesAreTheMatchedRows ==
  pc = "cleaned" =>
    /\ \A i \in DOMAIN deliveries.rows :
         /\ deliveries.rows[i]["season"] # NaNf
         /\ \E j \in DOMAIN csv.matches.rows :
              /\ csv.matches.rows[j]["id"] = deliveries.rows[i]["match_id"]
              /\ deliveries.rows[i]["season"] = clean_season(csv.matches.rows[j]["season"])
    /\ Len(deliveries.rows) = Len(csv_matched)
    /\ \A i \in DOMAIN deliveries.rows :
         i \in DOMAIN csv_matched => same_ball(csv_matched[i], deliveries.rows[i])

\* the year a label of the form names when a split label maps to its
\* trailing part
trailing_year(a) == IF a.form = "year" THEN a.year ELSE a.year + 1

\* the two labels that are forced to the year 2020
is_dual_label(a) == a.year = 2020 /\ a.form \in {"slash2", "dash2"} /\ ~a.pad

\* C6 as it is written: every label maps to a four-digit year, a four-digit
\* label to itself and a split label to its trailing part, a two-digit part
\* expanded by '20'.
C6_TrailingYear ==
  pc = "returned" => ret = trailing_year(arg) /\ ret \in 1000..9999

\* C6, amended: clean_season returns for every label but the one without a
\* trailing part; the result is a four-digit year: 2020 for '2020/21' and
\* '2020-21', and for every other label the label itself or its trailing
\* part, a two-digit part expanded by '20'.
C6_TrailingYearButDual ==
  /\ pc = "ValueError" => arg.form = "open"
  /\ pc = "returned" =>
       /\ arg.form # "open"
       /\ ret \in 1000..9999
       /\ ret = IF is_dual_label(arg) THEN 2020 ELSE trailing_year(arg)

\* a call that reaches C6's case: '2007/08' has returned 2008
C6_Witness ==
  pc = "returned" /\ arg = [year |-> 2007, form |-> "slash2", pad |-> FALSE] /\ ret = 2008

\* C7: every label of the season 2020/21, short or long, with '/' or '-',
\* with or without whitespace around it, maps to 2020.
C7_DualSeasonIs2020 ==
  (pc = "returned" /\ arg.year = 2020 /\ arg.form \in {"slash2", "dash2", "slash4", "dash4"})
    => ret = 2020

\* C8 as it is written: after clean_data no dismissal_kind, player_dismissed
\* or fielder is missing, each is 'None' where the input cell was missing,
\* and a missing batting_team or bowling_team is 'Unknown'.
C8_NoMissingDeliveryCell ==
  pc = "cleaned" =>
    \A i \in DOMAIN deliveries.rows :
      LET r == deliveries.rows[i]
      IN  /\ r["dismissal_kind"] # NaN /\ r["player_dismissed"] # NaN /\ r["fielder"] # NaN
          /\ \E j \in DOMAIN csv.deliveries.rows :
               LET q == csv.deliveries.rows[j]
               IN  /\ same_ball(q, r)
                   /\ q["dismissal_kind"] = NaN => r["dismissal_kind"] = s_None
                   /\ q["player_dismissed"] = NaN => r["player_dismissed"] = s_None
                   /\ q["fielder"] = NaN => r["fielder"] = s_None
                   /\ q["batting_team"] = NaN => r["batting_team"] = s_Unknown
                   /\ q["bowling_team"] = NaN => r["bowling_team"] = s_Unknown

\* C8, amended: after clean_data no dismissal_kind, player_dismissed,
\* batting_team or bowling_team is missing: a missing dismissal_kind or
\* player_dismissed is 'None' and a missing team 'Unknown', every other cell
\* of them as in the input.  A fielder is missing where the input cell was
\* missing, otherwise as in the input, and never the string 'None'.
C8_DefaultsButFielder ==
  pc = "cleaned" =>
    \A i \in DOMAIN deliveries.rows :
      LET r == deliveries.rows[i]
      IN  /\ r["dismissal_kind"] # NaN /\ r["player_dismissed"] # NaN
          /\ r["batting_team"] # NaN /\ r["bowling_team"] # NaN
          /\ r["fielder"] # s_None
          /\ \E j \in DOMAIN csv.deliveries.rows :
               LET q == csv.deliveries.rows[j]
               IN  /\ same_ball(q, r)
                   /\ r["dismissal_kind"] =
                        IF q["dismissal_kind"] = NaN THEN s_None ELSE q["dismissal_kind"]
                   /\ r["player_dismissed"] =
                        IF q["player_dismissed"] = NaN THEN s_None ELSE q["player_dismissed"]
                   /\ r["batting_team"] =
                        IF q["batting_team"] = NaN THEN s_Unknown ELSE q["batting_team"]
                   /\ r["bowling_team"] =
                        IF q["bowling_team"] = NaN THEN s_Unknown ELSE q["bowling_team"]
                   /\ r["fielder"] = q["fielder"]

\* a run that reaches C8's case: a delivery without dismissal, fielder and
\* teams has been cleaned
C8_Witness ==
  /\ pc = "cleaned"
  /\ \E i \in DOMAIN deliveries.rows :
       /\ deliveries.rows[i]["dismissal_kind"] = s_None
       /\ deliveries.rows[i]["player_dismissed"] = s_None
       /\ deliveries.rows[i]["fielder"] = NaN
  /\ \E i \in DOMAIN deliveries.rows :
       /\ deliveries.rows[i]["batting_team"] = s_Unknown
       /\ deliveries.rows[i]["bowling_team"] = s_Unknown

\* C9: after clean_data the rows of matches are those of the input, and a
\* missing city is 'Unknown', a missing winner 'No Result', a missing
\* result_margin 0, a missing player_of_match 'None', a missing method
\* 'Normal' and a missing toss_winner 'None', spelled so after the
\* canonicalization of winner and toss_winner.
C9_MatchDefaults ==
  pc = "cleaned" =>
    /\ Len(matches.rows) = Len(csv.matches.rows)
    /\ \A i \in DOMAIN matches.rows :
         LET q == csv.matches.rows[i]
             r == matches.rows[i]
         IN  /\ r["id"] = q["id"]
             /\ q["city"] = NaN => r["city"] = <<"U","n","k","n","o","w","n">>
             /\ q["winner"] = NaN => r["winner"] = <<"N","o"," ","R","e","s","u","l","t">>
             /\ q["result_margin"] = NaNf => r["result_margin"] = 0
             /\ q["player_of_match"] = NaN => r["player_of_match"] = <<"N","o","n","e">>
             /\ q["method"] = NaN => r["method"] = <<"N","o","r","m","a","l">>
             /\ q["toss_winner"] = NaN => r["toss_winner"] = <<"N","o","n","e">>
             /\ r["city"] # NaN /\ r["winner"] # NaN /\ r["result_margin"] # NaNf
             /\ r["player_of_match"] # NaN /\ r["method"] # NaN /\ r["toss_winner"] # NaN

\* a run that reaches C9's case: a match without city, winner, margin,
\* player of the match, method and toss winner has been cleaned
C9_Witness ==
  /\ pc = "cleaned"
  /\ \E i \in DOMAIN matches.rows :
       /\ csv.matches.rows[i]["winner"] = NaN
       /\ csv.matches.rows[i]["toss_winner"] = NaN
       /\ csv.matches.rows[i]["result_margin"] = NaNf
       /\ matches.rows[i]["winner"] = s_No_Result
       /\ matches.rows[i]["toss_winner"] = s_None
       /\ matches.rows[i]["result_margin"] = 0

\* C10: canonicalization is idempotent: the name it returns for a key of the
\* alias table, a value of it or a name outside it is a name it returns
\* unchanged.
C10_CanonicalizeIdempotent ==
  pc = "returned" => canonicalize(ret) = ret

\* a call that reaches C10's case: an alias in another letter case than the
\* key has been mapped to the name of today
C10_Witness ==
  /\ pc = "returned"
  /\ arg = t_Deccan_Chargers
  /\ ret = t_Sunrisers_Hyderabad

\* C11: a name that differs from a key of the alias table only in letter
\* case or in whitespace around it becomes the name the table gives for that
\* key; a name that so matches no key becomes itself, stripped and in title
\* case; a missing cell stays missing.
C11_ExactMatchAfterNormalization ==
  pc = "returned" =>
    IF arg = NaN THEN ret = NaN
    ELSE LET n == str_lower(str_strip(arg))
             matched == {i \in DOMAIN team_mapping : str_strip(team_mapping[i][1]) = n}
         IN  /\ \A i \in matched : ret = team_mapping[i][2]
             /\ matched = {} => ret = str_title(n)

\* a call that reaches C11's case: the lower-case alias has been mapped
C11_Witness ==
  /\ pc = "returned"
  /\ arg = t_deccan_chargers
  /\ ret = t_Sunrisers_Hyderabad

\* the names of the cleaned columns team1 and team2
team_vocabulary ==
  {matches.rows[j]["team1"] : j \in DOMAIN matches.rows}
    \cup {matches.rows[j]["team2"] : j \in DOMAIN matches.rows}

\* the cell x names the team of cell y but for letter case and whitespace
\* around it
same_spelling(x, y) ==
  x # NaN /\ y # NaN /\ str_lower(str_strip(x)) = str_lower(str_strip(y))

\* C12 as it is written: after clean_data every winner and every toss_winner
\* is a name of the cleaned columns team1 and team2.
C12_WinnersAreTeams ==
  pc = "cleaned" =>
    \A i \in DOMAIN matches.rows :
      /\ matches.rows[i]["winner"] \in team_vocabulary
      /\ matches.rows[i]["toss_winner"] \in team_vocabulary

\* C12, amended: after clean_data a winner or toss_winner that names one of
\* the two teams of its row, but for letter case and whitespace around it, is
\* the cleaned team1 or team2 of that row; a missing winner is 'No Result'
\* and a missing toss_winner 'None', and these two are no names of team1 or
\* team2.
C12_WinnersAreTeamsOrDefaults ==
  pc = "cleaned" =>
    \A i \in DOMAIN matches.rows :
      LET q == csv.matches.rows[i]
          r == matches.rows[i]
      IN  /\ \A col \in {"winner", "toss_winner"} :
               /\ same_spelling(q[col], q["team1"]) => r[col] = r["team1"]
               /\ same_spelling(q[col], q["team2"]) => r[col] = r["team2"]
          /\ q["winner"] = NaN =>
               r["winner"] = <<"N","o"," ","R","e","s","u","l","t">> /\ r["winner"] \notin team_vocabulary
          /\ q["toss_winner"] = NaN =>
               r["toss_winner"] = <<"N","o","n","e">> /\ r["toss_winner"] \notin team_vocabulary

\* a run that reaches C12's case: a winner spelled in lower case has become
\* the cleaned team1, and a match without winner has been cleaned
C12_Witness ==
  /\ pc = "cleaned"
  /\ \E i \in DOMAIN matches.rows :
       /\ csv.matches.rows[i]["winner"] = t_deccan_chargers
       /\ matches.rows[i]["winner"] = t_Sunrisers_Hyderabad
       /\ matches.rows[i]["team1"] = t_Sunrisers_Hyderabad
  /\ \E i \in DOMAIN matches.rows : csv.matches.rows[i]["winner"] = NaN

\* the matches team played: the rows that name it as team1 or as team2
played(team) ==
  Cardinality({i \in DOMAIN matches.rows : matches.rows[i]["team1"] = team})
    + Cardinality({i \in DOMAIN matches.rows : matches.rows[i]["team2"] = team})

\* the matches team won
won(team) == Cardinality({i \in DOMAIN matches.rows : matches.rows[i]["winner"] = team})

\* C13: for every team of team1 or team2 the mapping holds under most_losses
\* the number of matches the team played minus the number it won.
C13_LossesForEveryTeam ==
  pc = "computed" =>
    \A team \in team_vocabulary :
      /\ \E i \in DOMAIN kpis.value["most_losses"] : kpis.value["most_losses"][i][1] = team
      /\ At(kpis.value["most_losses"], team) = played(team) - won(team)

\* the seasons of the rows of a per-season table, in the order of its rows
table_seasons(key) ==
  [i \in DOMAIN kpis.value[key] |-> kpis.value[key][i].season]

\* the seasons of the cleaned deliveries
delivery_seasons == {deliveries.rows[i]["season"] : i \in DOMAIN deliveries.rows}

\* the cleaned delivery i counts for a per-season table: every one for
\* orange_cap, one with a dismissal credited to the bowler for purple_cap, one
\* with six or four runs off the bat for the other two
counts_for(key, i) ==
  CASE key = "orange_cap" -> TRUE
    [] key = "purple_cap" ->
         deliveries.rows[i]["dismissal_kind"] \in
           {<<"c","a","u","g","h","t">>, <<"b","o","w","l","e","d">>, <<"l","b","w">>,
            <<"s","t","u","m","p","e","d">>, <<"h","i","t"," ","w","i","c","k","e","t">>,
            <<"c","a","u","g","h","t"," ","a","n","d"," ","b","o","w","l","e","d">>}
    [] key = "most_sixes_per_season" -> deliveries.rows[i]["batsman_runs"] = 6
    [] key = "most_fours_per_season" -> deliveries.rows[i]["batsman_runs"] = 4

\* the seasons of the cleaned deliveries that count for a per-season table
counting_seasons(key) ==
  {deliveries.rows[i]["season"] : i \in {i \in DOMAIN deliveries.rows : counts_for(key, i)}}

season_tables == {"orange_cap", "purple_cap", "most_sixes_per_season", "most_fours_per_season"}

\* s holds every element of S once, and nothing else
lists_once(s, S) ==
  /\ {s[i] : i \in DOMAIN s} = S
  /\ \A i, j \in DOMAIN s : s[i] = s[j] => i = j

\* C14 as it is written: each per-season table has exactly one row for every
\* season of the deliveries and no other row.
C14_OneRowPerSeason ==
  pc = "computed" =>
    \A key \in season_tables : lists_once(table_seasons(key), delivery_seasons)

\* C14, amended: each per-season table has exactly one row for every season
\* with a delivery that counts for it and no other row; a season without a
\* wicket credited to a bowler, without a six or without a four has no row
\* in purple_cap, most_sixes_per_season or most_fours_per_season.
C14_OneRowPerCountingSeason ==
  pc = "computed" =>
    \A key \in season_tables : lists_once(table_seasons(key), counting_seasons(key))

\* a run that reaches C14's case: two seasons, a six in one only, a four in
\* the other only
C14_Witness ==
  /\ pc = "computed"
  /\ Len(kpis.value["orange_cap"]) = 2
  /\ Len(kpis.value["most_sixes_per_season"]) = 1
  /\ Len(kpis.value["most_fours_per_season"]) = 1
  /\ kpis.value["most_sixes_per_season"][1].season # kpis.value["most_fours_per_season"][1].season

\* the column that names the player of a per-season table
player_column(key) == IF key = "purple_cap" THEN "bowler" ELSE "batter"

\* the cleaned deliveries of a player in a season that count for a table
player_rows(key, season, player) ==
  {i \in DOMAIN deliveries.rows :
     /\ deliveries.rows[i]["season"] = season
     /\ deliveries.rows[i][player_column(key)] = player
     /\ counts_for(key, i)}

\* the players with such a delivery
season_players(key, season) ==
  {deliveries.rows[i][player_column(key)] : i \in
     {i \in DOMAIN deliveries.rows :
        deliveries.rows[i]["season"] = season /\ counts_for(key, i)}}

\* the sum of batsman_runs over a set of cleaned deliveries
RECURSIVE runs_over(_)
runs_over(I) ==
  IF I = {} THEN 0
  ELSE LET i == CHOOSE i \in I : TRUE
       IN  deliveries.rows[i]["batsman_runs"] + runs_over(I \ {i})

\* the figure of a player in a season: runs for orange_cap, the number of
\* deliveries that count for the other tables
season_metric(key, season, player) ==
  IF key = "orange_cap" THEN runs_over(player_rows(key, season, player))
  ELSE Cardinality(player_rows(key, season, player))

\* the players of a season whose figure is the figure of the table's row t
tied_with(key, t) ==
  {p \in season_players(key, t.season) : season_metric(key, t.season, p) = t.value}

\* the first cleaned delivery of a player in a season that counts for a table
first_row(key, season, player) ==
  CHOOSE i \in player_rows(key, season, player) :
    \A j \in player_rows(key, season, player) : i <= j

\* C15 as it is written: the player of every row of a per-season table is,
\* of the players tied at the row's figure, the one whose delivery comes
\* first in the deliveries table.
C15_FirstInRowOrder ==
  pc = "computed" =>
    \A key \in season_tables : \A i \in DOMAIN kpis.value[key] :
      LET t == kpis.value[key][i]
      IN  \A p \in tied_with(key, t) :
            first_row(key, t.season, t.player) <= first_row(key, t.season, p)

\* C15, amended: the player of every row of a per-season table is one of
\* the players tied at the row's figure, and of these the first in ascending
\* order of the name, whatever the order of the deliveries.
C15_FirstInNameOrder ==
  pc = "computed" =>
    \A key \in season_tables : \A i \in DOMAIN kpis.value[key] :
      LET t == kpis.value[key][i]
      IN  /\ t.player \in tied_with(key, t)
          /\ \A p \in tied_with(key, t) : p = t.player \/ str_less(t.player, p)

\* a run that reaches C15's case: two bowlers with one wicket each in a
\* season, the later in name order first in the table
C15_Witness ==
  /\ pc = "computed"
  /\ Len(deliveries.rows) >= 2
  /\ deliveries.rows[1]["bowler"] = p_Malinga
  /\ deliveries.rows[2]["bowler"] = p_Bumrah
  /\ Len(kpis.value["purple_cap"]) = 1
  /\ Cardinality(tied_with("purple_cap", kpis.value["purple_cap"][1])) = 2
  /\ kpis.value["purple_cap"][1].player = p_Bumrah

\* the overall leaderboards that are cut to ten entries
top_ten_keys ==
  {"most_runs_total", "most_wickets_total", "most_sixes", "most_fours", "most_catches",
   "most_stumps", "most_run_outs", "most_matches_played", "most_pom_awards"}

\* the column that names the entries of an overall leaderboard
entry_column(key) ==
  CASE key \in {"most_runs_total", "most_sixes", "most_fours", "most_matches_played"} -> "batter"
    [] key = "most_wickets_total" -> "bowler"
    [] key \in {"most_catches", "most_stumps", "most_run_outs"} -> "fielder"
    [] key = "most_pom_awards" -> "player_of_match"
    [] key = "stadium_matches" -> "venue"

\* the rows of the cleaned table of a leaderboard
board_rows(key) ==
  IF key \in {"most_pom_awards", "stadium_matches"} THEN matches.rows ELSE deliveries.rows

\* row i of that table counts for the leaderboard
board_counts(key, i) ==
  LET r == board_rows(key)[i]
  IN  /\ r[entry_column(key)] # NaN
      /\ CASE key = "most_wickets_total" ->
                r["dismissal_kind"] \in
                  {<<"c","a","u","g","h","t">>, <<"b","o","w","l","e","d">>, <<"l","b","w">>,
                   <<"s","t","u","m","p","e","d">>, <<"h","i","t"," ","w","i","c","k","e","t">>,
                   <<"c","a","u","g","h","t"," ","a","n","d"," ","b","o","w","l","e","d">>}
           [] key = "most_sixes" -> r["batsman_runs"] = 6
           [] key = "most_fours" -> r["batsman_runs"] = 4
           [] key = "most_catches" -> r["dismissal_kind"] = <<"c","a","u","g","h","t">>
           [] key = "most_stumps" -> r["dismissal_kind"] = <<"s","t","u","m","p","e","d">>
           [] key = "most_run_outs" -> r["dismissal_kind"] = <<"r","u","n"," ","o","u","t">>
           [] key = "most_pom_awards" -> r["player_of_match"] # <<"N","o","n","e">>
           [] OTHER -> TRUE

\* the rows of an entry that count for the leaderboard
entry_rows(key, name) ==
  {i \in DOMAIN board_rows(key) :
     board_rows(key)[i][entry_column(key)] = name /\ board_counts(key, i)}

\* the players or venues with a row that counts
candidates(key) ==
  {board_rows(key)[i][entry_column(key)] : i \in
     {i \in DOMAIN board_rows(key) : board_counts(key, i)}}

\* the figure of an entry: its runs, its distinct matches, or the number of
\* its rows that count
figure(key, name) ==
  CASE key = "most_runs_total" -> runs_over(entry_rows(key, name))
    [] key = "most_matches_played" ->
         Cardinality({deliveries.rows[i]["match_id"] : i \in entry_rows(key, name)})
    [] OTHER -> Cardinality(entry_rows(key, name))

\* the values of the series s never increase, every entry of s is a
\* candidate with its figure, no entry comes twice, and no candidate left
\* out has a figure above that of an entry
is_ranking(key, s) ==
  /\ \A i, j \in DOMAIN s : i < j => s[i][2] >= s[j][2] /\ s[i][1] # s[j][1]
  /\ \A i \in DOMAIN s : s[i][1] \in candidates(key) /\ s[i][2] = figure(key, s[i][1])
  /\ \A c \in candidates(key) \ {s[i][1] : i \in DOMAIN s} :
       \A i \in DOMAIN s : figure(key, c) <= s[i][2]

\* the series s leaves no candidate out while it has room for one
is_top(key, s, n) ==
  Len(s) = IF Cardinality(candidates(key)) < n THEN Cardinality(candidates(key)) ELSE n

\* C16 as it is written: each of the ten overall leaderboards has at most
\* ten entries, in non-increasing order of value, and no player or venue
\* left out has a value above an entry's.
C16_TopTen ==
  pc = "computed" =>
    \A key \in top_ten_keys \cup {"stadium_matches"} :
      Len(kpis.value[key]) <= 10 /\ is_ranking(key, kpis.value[key])

\* C16, amended: the nine leaderboards of players are the first ten, or all
\* if fewer, of their candidates in non-increasing order of value, no player
\* left out above an entry; stadium_matches is in the same order but holds
\* every venue, however many.
C16_TopTenButStadiums ==
  pc = "computed" =>
    /\ \A key \in top_ten_keys :
         is_top(key, kpis.value[key], 10) /\ is_ranking(key, kpis.value[key])
    /\ is_ranking("stadium_matches", kpis.value["stadium_matches"])
    /\ Len(kpis.value["stadium_matches"]) = Cardinality(candidates("stadium_matches"))

\* a run that reaches C16's case: eleven batters and eleven venues with
\* different figures, ten batters on the leaderboard and all the venues
C16_Witness ==
  /\ pc = "computed"
  /\ Cardinality(candidates("most_runs_total")) = 11
  /\ Len(kpis.value["most_runs_total"]) = 10
  /\ Len(kpis.value["stadium_matches"]) = 11
  /\ kpis.value["most_runs_total"][1][2] > kpis.value["most_runs_total"][10][2]

\* C17: the figure of every bowler in most_wickets_total is the number of
\* the bowler's deliveries with a dismissal of the kinds caught, bowled, lbw,
\* stumped, caught and bowled, hit wicket; every bowler with such a delivery
\* is listed and no other; the figure of a row of purple_cap is that number
\* within the row's season.
C17_WicketsCreditTheBowler ==
  pc = "computed" =>
    /\ \A i \in DOMAIN kpis.value["most_wickets_total"] :
         LET e == kpis.value["most_wickets_total"][i]
         IN  e[2] = Cardinality({j \in DOMAIN deliveries.rows :
                      /\ deliveries.rows[j]["bowler"] = e[1]
                      /\ counts_for("purple_cap", j)})
    /\ {kpis.value["most_wickets_total"][i][1] : i \in DOMAIN kpis.value["most_wickets_total"]}
         = {deliveries.rows[j]["bowler"] : j \in
              {j \in DOMAIN deliveries.rows : counts_for("purple_cap", j)}}
    /\ \A i \in DOMAIN kpis.value["purple_cap"] :
         LET t == kpis.value["purple_cap"][i]
         IN  t.value = Cardinality({j \in DOMAIN deliveries.rows :
                         /\ deliveries.rows[j]["bowler"] = t.player
                         /\ deliveries.rows[j]["season"] = t.season
                         /\ counts_for("purple_cap", j)})

\* a run that reaches C17's case: a bowler with a run out and a batter
\* bowled has one wicket
C17_Witness ==
  /\ pc = "computed"
  /\ \E i, j \in DOMAIN deliveries.rows :
       /\ deliveries.rows[i]["bowler"] = p_Malinga
       /\ deliveries.rows[j]["bowler"] = p_Malinga
       /\ deliveries.rows[i]["dismissal_kind"] = s_run_out
       /\ deliveries.rows[j]["dismissal_kind"] = s_bowled
  /\ kpis.value["most_wickets_total"] = << <<p_Malinga, 1>> >>

\* C18: the rows of cumulative_runs are in strictly ascending order of the
\* season, every row has the same batters as columns, and down the rows no
\* value of a column decreases.
C18_CumulativeRunsNeverDecrease ==
  pc = "computed" =>
    LET cr == kpis.value["cumulative_runs"]
    IN  \A k, l \in DOMAIN cr :
          k < l =>
            /\ cr[k].season < cr[l].season
            /\ DOMAIN cr[k].runs = DOMAIN cr[l].runs
            /\ \A c \in DOMAIN cr[k].runs :
                 /\ cr[k].runs[c][1] = cr[l].runs[c][1]
                 /\ cr[k].runs[c][2] <= cr[l].runs[c][2]

\* a run that reaches C18's case: two seasons, a batter with runs in the
\* first only and a batter with runs in the second only
C18_Witness ==
  /\ pc = "computed"
  /\ Len(kpis.value["cumulative_runs"]) = 2
  /\ \E c, e \in DOMAIN kpis.value["cumulative_runs"][1].runs :
       /\ kpis.value["cumulative_runs"][1].runs[c][2] > 0
       /\ kpis.value["cumulative_runs"][2].runs[c][2] = kpis.value["cumulative_runs"][1].runs[c][2]
       /\ kpis.value["cumulative_runs"][1].runs[e][2] = 0
       /\ kpis.value["cumulative_runs"][2].runs[e][2] > 0

\* the warnings of save_precomputed_stats in the log
save_failures == {i \in DOMAIN log : log[i].warning \in {"makedirs", "to_json"}}

\* a KPI without content: a table without entries, a count of zero
kpi_empty(key) ==
  IF key = "total_matches" THEN kpis.value[key] = 0 ELSE kpis.value[key] = Empty

\* C19: after save_precomputed_stats ends without an I/O failure there is a
\* file for every non-empty KPI of the mapping, and every key without a file
\* is a KPI that was empty or failed, total_matches included.
C19_ArtifactPerNonEmptyKpi ==
  (pc = "saved" /\ save_failures = {}) =>
    /\ \A key \in kpi_keys : ~kpi_empty(key) => key \in stats
    /\ \A key \in kpi_keys \ stats :
         kpi_empty(key) \/ kpi_fails(key, matches, deliveries)

\* C19 for the tables of the mapping only: a file for every non-empty table,
\* and no file only for the empty ones
C19_ArtifactPerTable ==
  (pc = "saved" /\ save_failures = {}) =>
    \A key \in kpi_keys \ {"total_matches"} : key \in stats <=> ~kpi_empty(key)

\* C20: save_precomputed_stats always returns to its caller; if makedirs
\* fails it logs one warning and writes nothing; if to_json fails for one
\* KPI it logs a warning for that KPI and still writes every other non-empty
\* table; without a failure it logs nothing.
C20_SaveNeverRaises ==
  [][pc = "computed" =>
       LET w       == writable(kpis.value)
           missing == w \ stats'
           said    == SubSeq(log', Len(log) + 1, Len(log'))
       IN  /\ pc' = "saved"
           /\ stats' \subseteq w
           /\ \/ said = <<>> /\ missing = {}
              \/ /\ Len(said) = 1
                 /\ said[1].warning = "makedirs"
                 /\ stats' = {}
              \/ /\ Len(said) = 1
                 /\ said[1].warning = "to_json"
                 /\ said[1].count = Cardinality(missing)
                 /\ said[1].count = 1]_vars

\* a run that reaches C20's case: to_json failed for one KPI and the other
\* tables were written
C20_Witness ==
  /\ pc = "saved"
  /\ \E i \in save_failures : log[i].warning = "to_json"
  /\ stats # {}
  /\ Cardinality(writable(kpis.value) \ stats) = 1

\* C21: if one of the two input files is missing, the only step of the run
\* is load_data raising FileNotFoundError; it reads nothing, and clean_data,
\* calculate_kpis and save_precomputed_stats never run: the tables, the
\* mapping, the log and the output directory stay as they were.
C21_MissingFileStopsThePipeline ==
  [][files # {"matches.csv", "deliveries.csv"} =>
       /\ pc = "start"
       /\ pc' = "FileNotFoundError"
       /\ UNCHANGED <<matches, deliveries, log, kpis, stats>>]_vars

\* a run that reaches C21's case: load_data has raised on a missing file
C21_Witness ==
  /\ files # {"matches.csv", "deliveries.csv"}
  /\ pc = "FileNotFoundError"
  /\ kpis.value = <<>>

\* the block of key ends in its except clause on (m, d): its expression
\* reads a column the tables lack; most_losses reads no column itself and
\* fails on the name team_wins, bound only if 'winner' was read
handled(key, m, d) ==
  IF key = "most_losses" THEN "winner" \notin m.cols ELSE kpi_fails(key, m, d)

\* C22: whenever calculate_kpis returns normally the mapping has exactly the
\* 22 keys of kpi_keys, whichever computations failed: the key of a failed
\* KPI is present and its value is empty.
C22_FixedKeys ==
  pc = "computed" =>
    /\ DOMAIN kpis.value = kpi_keys
    /\ Cardinality(DOMAIN kpis.value) = 22
    /\ \A key \in kpi_keys \ {"total_matches"} :
         handled(key, matches, deliveries) => kpis.value[key] = Empty

\* a run that reaches C22's case: calculate_kpis has returned and the
\* computation of one KPI has failed while another one has a value
C22_Witness ==
  /\ pc = "computed"
  /\ \E key \in kpi_keys \ {"total_matches"} : handled(key, matches, deliveries)
  /\ \E key \in kpi_keys \ {"total_matches"} : kpis.value[key] # Empty

C24_SeasonLeaderIsTheMaximum ==
  pc = "computed" =>
    \A key \in season_tables : \A i \in DOMAIN kpis.value[key] :
      LET t == kpis.value[key][i]
      IN  /\ t.value = season_metric(key, t.season, t.player)
          /\ \A p \in season_players(key, t.season) :
               season_metric(key, t.season, p) <= t.value

\* a run that reaches C24's case: one batter hits 4, 6, 6 in one season and
\* leads the sixes of that season with 2
C24_Witness ==
  /\ pc = "computed"
  /\ Len(deliveries.rows) = 3
  /\ \A i \in 1..3 : deliveries.rows[i]["batter"] = p_Kohli /\ deliveries.rows[i]["season"] = 2008
  /\ deliveries.rows[1]["batsman_runs"] = 4
  /\ deliveries.rows[2]["batsman_runs"] = 6
  /\ deliveries.rows[3]["batsman_runs"] = 6
  /\ kpis.value["most_sixes_per_season"] = <<[season |-> 2008, player |-> p_Kohli, value |-> 2]>>
  /\ kpis.value["orange_cap"] = <<[season |-> 2008, player |-> p_Kohli, value |-> 16]>>

\* the batters of the cleaned deliveries
all_batters == {deliveries.rows[i]["batter"] : i \in DOMAIN deliveries.rows}

\* the runs of a batter in a set of seasons, from the cleaned deliveries
batter_runs(b, S) ==
  runs_over({i \in DOMAIN deliveries.rows :
               deliveries.rows[i]["batter"] = b /\ deliveries.rows[i]["season"] \in S})

\* the seasons of the cleaned deliveries
all_seasons == {deliveries.rows[i]["season"] : i \in DOMAIN deliveries.rows}

\* the batters that are the columns of cumulative_runs
cumulative_columns ==
  IF kpis.value["cumulative_runs"] = Empty THEN {}
  ELSE {kpis.value["cumulative_runs"][1].runs[c][1] :
          c \in DOMAIN kpis.value["cumulative_runs"][1].runs}

\* most_runs_total has no tie between its fifth and its sixth entry
no_tie_at_five ==
  Len(kpis.value["most_runs_total"]) > 5 =>
    kpis.value["most_runs_total"][5][2] > kpis.value["most_runs_total"][6][2]

\* C25: the columns of cumulative_runs are the batters with the highest
\* all-time totals, five of them or all if there are fewer: the first five
\* entries of most_runs_total when there is no tie between the fifth and the
\* sixth; the last row holds every such batter's total of most_runs_total;
\* every row holds the value of the row before (0 in the first row) plus the
\* batter's runs of the row's season, so a season without runs repeats it.
C25_CumulativeRunsOfTheTopFive ==
  pc = "computed" =>
    LET cr  == kpis.value["cumulative_runs"]
        mrt == kpis.value["most_runs_total"]
        five == IF Len(mrt) < 5 THEN Len(mrt) ELSE 5
    IN  /\ Cardinality(cumulative_columns) =
             (IF Cardinality(all_batters) < 5 THEN Cardinality(all_batters) ELSE 5)
        /\ \A b \in cumulative_columns : \A o \in all_batters \ cumulative_columns :
             batter_runs(b, all_seasons) >= batter_runs(o, all_seasons)
        /\ no_tie_at_five => cumulative_columns = {mrt[i][1] : i \in 1..five}
        /\ \A k \in DOMAIN cr : \A c \in DOMAIN cr[k].runs :
             /\ cr[k].runs[c][2] =
                  (IF k = 1 THEN 0 ELSE cr[k - 1].runs[c][2])
                    + batter_runs(cr[k].runs[c][1], {cr[k].season})
             /\ k = Len(cr) =>
                  /\ cr[k].runs[c][2] = batter_runs(cr[k].runs[c][1], all_seasons)
                  /\ \A i \in DOMAIN mrt :
                       mrt[i][1] = cr[k].runs[c][1] => mrt[i][2] = cr[k].runs[c][2]

\* a run that reaches C25's case: more than five batters, no tie at the
\* fifth, two seasons, and a column that is 0 in the first season
C25_Witness ==
  /\ pc = "computed"
  /\ Cardinality(all_batters) > 5
  /\ no_tie_at_five
  /\ Len(kpis.value["cumulative_runs"]) = 2
  /\ \E c \in DOMAIN kpis.value["cumulative_runs"][1].runs :
       /\ kpis.value["cumulative_runs"][1].runs[c][2] = 0
       /\ kpis.value["cumulative_runs"][2].runs[c][2] > 0
  /\ \E c \in DOMAIN kpis.value["cumulative_runs"][1].runs :
       /\ kpis.value["cumulative_runs"][1].runs[c][2] > 0
       /\ kpis.value["cumulative_runs"][2].runs[c][2] = kpis.value["cumulative_runs"][1].runs[c][2]

\* the rows of deliveries.csv whose match_id is the id of no row of matches.csv
csv_unmatched ==
  {i \in DOMAIN csv.deliveries.rows : csv.deliveries.rows[i]["match_id"] \notin csv_match_ids}

\* the warnings of clean_data about unmatched deliveries in the log
unmatched_warnings == {i \in DOMAIN log : log[i].warning = "unmatched"}

\* the number the warning reports, 0 if there is none
unmatched_reported ==
  IF unmatched_warnings = {} THEN 0
  ELSE log[CHOOSE i \in unmatched_warnings : TRUE].count

\* C26: the number in the unmatched-deliveries warning of clean_data is the
\* number of input deliveries whose match_id is the id of no match, and it is
\* the number of input rows minus the number of output rows; when it is 0
\* there is no warning and no row is dropped.
C26_UnmatchedCount ==
  pc = "cleaned" =>
    /\ Cardinality(unmatched_warnings) <= 1
    /\ unmatched_reported = Cardinality(csv_unmatched)
    /\ unmatched_reported = Len(csv.deliveries.rows) - Len(deliveries.rows)
    /\ Cardinality(csv_unmatched) = 0 =>
         unmatched_warnings = {} /\ Len(deliveries.rows) = Len(csv.deliveries.rows)

\* the ids of matches.csv are all different
csv_ids_unique ==
  \A i, j \in DOMAIN csv.matches.rows :
    csv.matches.rows[i]["id"] = csv.matches.rows[j]["id"] => i = j

\* C26 where no id is repeated in matches.csv
C26_UnmatchedCountOfUniqueIds == csv_ids_unique => C26_UnmatchedCount

\* C26 without the difference of the row counts
C26_ReportedIsUnmatched ==
  pc = "cleaned" =>
    /\ unmatched_reported = Cardinality(csv_unmatched)
    /\ Cardinality(csv_unmatched) = 0 => unmatched_warnings = {}

\* the rows of a table with the ball cells of q
copies(rows, q) == {i \in DOMAIN rows : same_ball(q, rows[i])}

\* C30: clean_data puts every input delivery at most once into its output:
\* the output has no more rows than the input, and no more rows with the
\* cells of an input row than the input has, also when matches.csv holds two
\* rows of one id.
C30_NoRowMultiplied ==
  pc = "cleaned" =>
    /\ Len(deliveries.rows) <= Len(csv.deliveries.rows)
    /\ \A i \in DOMAIN csv.deliveries.rows :
         Cardinality(copies(deliveries.rows, csv.deliveries.rows[i]))
           <= Cardinality(copies(csv.deliveries.rows, csv.deliveries.rows[i]))

\* C30 where no id is repeated in matches.csv
C30_NoRowMultipliedOfUniqueIds == csv_ids_unique => C30_NoRowMultiplied

\* C27: over any number of runs that write to one output directory, a file
\* in the directory after a run is the file of a KPI that was non-empty in
\* that run; no file of an earlier run stays for a KPI that is empty now.
C27_NoStaleFile ==
  pc = "saved" => \A key \in stats : kpis.value[key] # Empty

\* C27 for the first run into an empty directory
C27_NoStaleFileAfterOneRun ==
  [][(pc = "computed" /\ stats = {}) =>
       \A key \in stats' : kpis.value[key] # Empty]_vars

\* C28: every key the dashboard reads from the mapping is a key of the
\* mapping calculate_kpis returned, so no read of the mapping in the
\* dashboard fails with a missing key.
C28_DashboardKeysExist ==
  /\ pc \in {"computed", "saved"} => dashboard_reads \subseteq DOMAIN kpis.value
  /\ pc # "dashboard KeyError"

\* C28 for the keys the dashboard reads other than season_winners and
\* most_titles
C28_OtherKeysExist ==
  pc \in {"computed", "saved"} =>
    dashboard_reads \ {"season_winners", "most_titles"} \subseteq DOMAIN kpis.value

\* the columns of the two input files as the input-file interface lists them
matches_interface ==
  {"id", "season", "city", "team1", "team2", "toss_winner", "winner",
   "result_margin", "method", "player_of_match", "venue"}

deliveries_interface ==
  {"match_id", "batter", "bowler", "batsman_runs", "total_runs", "dismissal_kind",
   "player_dismissed", "fielder", "batting_team", "bowling_team"}

\* C29: on a matches table and a deliveries table with exactly the columns
\* the input-file interface lists, clean_data completes without an error: it
\* reads no other column.
C29_InterfaceColumnsSuffice ==
  (csv.matches.cols = matches_interface /\ csv.deliveries.cols = deliveries_interface) =>
    pc \notin {"KeyError", "ValueError"}

\* C29 for deliveries with the column extras_type besides the listed ones
C29_WithExtrasType ==
  (/\ csv.matches.cols = matches_interface
   /\ csv.deliveries.cols = deliveries_interface \cup {"extras_type"}) =>
    pc \notin {"KeyError", "ValueError"}
====
